---- MODULE Spec2Model ----
(***************************************************************************)
(* Model of backend/server.js and of the components that call it.          *)
(*   - Spec: one request to GET /api/geocode or /api/validate-location and *)
(*     the provider cascade enhancedGeocode (tryNominatim, tryPhoton,      *)
(*     tryMapBox) it runs.                                                 *)
(*   - SpecPure: the helpers findBestNominatimResult,                      *)
(*     calculateNominatimConfidence, calculatePhotonConfidence,            *)
(*     formatPhotonDisplayName and generateLocationSuggestions, each       *)
(*     called on its own.  SpecAll is Spec and SpecPure together.          *)
(*   - SpecPair: calls of enhancedGeocode that run at the same time.       *)
(*   - SpecLimits: POST /api/posts behind checkPostLimits, the requests of *)
(*     one user running at the same time.  SpecDays: the same requests     *)
(*     over several days.                                                  *)
(*   - SpecAuth: logins, logout and the requests behind authenticateToken. *)
(*   - SpecPosts: PUT and DELETE /api/posts/:id.  SpecChat: the            *)
(*     conversation and message routes.                                    *)
(*   - SpecForm: the location field of the post form (LocationInput,       *)
(*     PostFormModal).  SpecDetail: the map of the post page (PostDetail). *)
(*                                                                         *)
(* Representation.                                                         *)
(*   - A JavaScript string is a sequence of one-character strings, so that *)
(*     toLowerCase, includes and the postal-code regular expression are    *)
(*     computed character by character.  Absent stands for a property that *)
(*     is undefined in the provider's JSON.                                *)
(*   - A number is a record [nan, v]; coordinates are whole degrees.       *)
(*   - importance is held in hundredths (0.7 is 70) and a candidate score  *)
(*     in tenths (the type weight 10 is 100), so every product and sum of  *)
(*     findBestNominatimResult is an integer.                              *)
(***************************************************************************)
EXTENDS Integers, Sequences, FiniteSets, TLC

(***************************************************************************)
(* Bounds of the model.                                                    *)
(***************************************************************************)
\* longest query drawn exhaustively over ShortAlphabet
MaxQueryLen == 2
\* longest candidate list a provider answers with
MaxCandidates == 2

(***************************************************************************)
(* Strings.                                                                *)
(***************************************************************************)
Absent == <<"<undefined>">>

UpperLetters ==
  <<"A","B","C","D","E","F","G","H","I","J","K","L","M",
    "N","O","P","Q","R","S","T","U","V","W","X","Y","Z">>

LowerLetters ==
  <<"a","b","c","d","e","f","g","h","i","j","k","l","m",
    "n","o","p","q","r","s","t","u","v","w","x","y","z">>

Digits == {"0","1","2","3","4","5","6","7","8","9"}

\* the characters \s matches, among those of the model
Whitespace == {" ", "\t"}

Range(s) == {s[k] : k \in DOMAIN s}

IsLetter(c) == c \in Range(UpperLetters) \cup Range(LowerLetters)

IsDigit(c) == c \in Digits

LowerChar(c) ==
  IF c \in Range(UpperLetters)
    THEN LowerLetters[CHOOSE k \in DOMAIN UpperLetters : UpperLetters[k] = c]
    ELSE c

\* String.prototype.toLowerCase
toLowerCase(s) == [k \in DOMAIN s |-> LowerChar(s[k])]

\* String.prototype.includes: sub occurs in s at some offset
includes(s, sub) ==
  \E off \in 0..(Len(s) - Len(sub)) :
    \A k \in 1..Len(sub) : s[off + k] = sub[k]

\* the string an undefined argument is converted to by includes()
UndefinedText == <<"u","n","d","e","f","i","n","e","d">>

\* x?.toLowerCase() handed to includes(): undefined becomes "undefined"
OptLowerArg(x) == IF x = Absent THEN UndefinedText ELSE toLowerCase(x)

\* x?.toLowerCase() || '' : undefined and the empty string both give ''
OptLowerOrEmpty(x) == IF x = Absent THEN <<>> ELSE toLowerCase(x)

(***************************************************************************)
(* Numbers and JSON values.                                                *)
(***************************************************************************)
Num(v) == [t |-> "number", v |-> v]

NaN == [t |-> "nan", v |-> 0]

Undefined == [t |-> "undefined", v |-> 0]

DigitSeq == <<"0","1","2","3","4","5","6","7","8","9">>

DigitVal(c) == (CHOOSE k \in DOMAIN DigitSeq : DigitSeq[k] = c) - 1

RECURSIVE SkipWhitespace(_, _)
\* index of the first character of s at or after k that is not whitespace
SkipWhitespace(s, k) ==
  IF k <= Len(s) /\ s[k] \in Whitespace THEN SkipWhitespace(s, k + 1) ELSE k

RECURSIVE DigitsEnd(_, _)
\* index after the run of digits of s that starts at k
DigitsEnd(s, k) ==
  IF k <= Len(s) /\ IsDigit(s[k]) THEN DigitsEnd(s, k + 1) ELSE k

RECURSIVE DigitsValue(_, _, _, _)
\* value of the digits s[k..e-1], acc being the value of the digits before k
DigitsValue(s, k, e, acc) ==
  IF k >= e THEN acc ELSE DigitsValue(s, k + 1, e, acc * 10 + DigitVal(s[k]))

\* parseFloat on a string of whole degrees: leading whitespace is skipped, an
\* optional sign and the longest run of digits are read, what follows is
\* ignored; undefined and a string with no leading number give NaN
parseFloat(x) ==
  IF x = Absent THEN NaN
  ELSE LET b == SkipWhitespace(x, 1)
           signed == b <= Len(x) /\ x[b] \in {"-", "+"}
           d == IF signed THEN b + 1 ELSE b
           e == DigitsEnd(x, d)
       IN  IF e = d THEN NaN
           ELSE IF signed /\ x[b] = "-"
                  THEN Num(0 - DigitsValue(x, d, e, 0))
                  ELSE Num(DigitsValue(x, d, e, 0))

(***************************************************************************)
(* The postal-code test of calculateNominatimConfidence:                   *)
(*   /^[A-Za-z]\d[A-Za-z]\s?\d[A-Za-z]\d$/.test(originalLocation)          *)
(***************************************************************************)
\* \d[A-Za-z]\d$ matched from position k
PostalTail(s, k) ==
  /\ Len(s) = k + 2
  /\ IsDigit(s[k])
  /\ IsLetter(s[k + 1])
  /\ IsDigit(s[k + 2])

\* the variant of PostalTest: the whitespace between the halves is required
PostalTestMutant(s) ==
  /\ Len(s) >= 4
  /\ IsLetter(s[1]) /\ IsDigit(s[2]) /\ IsLetter(s[3])
  /\ s[4] \in Whitespace /\ PostalTail(s, 5)

PostalTest(s) ==
  /\ Len(s) >= 3
  /\ IsLetter(s[1]) /\ IsDigit(s[2]) /\ IsLetter(s[3])
  /\ \/ Len(s) >= 4 /\ s[4] \in Whitespace /\ PostalTail(s, 5)
     \/ PostalTail(s, 4)

(***************************************************************************)
(* findBestNominatimResult.                                                *)
(***************************************************************************)
\* typeScores, in tenths
TypeNames ==
  {"city", "town", "village", "suburb", "neighbourhood", "hamlet",
   "administrative", "house", "building", "amenity"}

typeScores ==
  [n \in TypeNames |->
     CASE n = "city" -> 100
       [] n = "town" -> 90
       [] n = "village" -> 80
       [] n = "suburb" -> 70
       [] n = "neighbourhood" -> 60
       [] n = "hamlet" -> 50
       [] n = "administrative" -> 40
       [] n = "house" -> 30
       [] n = "building" -> 20
       [] n = "amenity" -> 10]

canada == <<"c","a","n","a","d","a">>

unitedStates == <<"u","n","i","t","e","d"," ","s","t","a","t","e","s">>

\* result.type || result.class || ''  ("" is the absent or empty property)
TypeOf(result) == IF result.type # "" THEN result.type ELSE result.class

\* typeScores[type] || 0
TypeScore(result) ==
  IF TypeOf(result) \in TypeNames THEN typeScores[TypeOf(result)] ELSE 0

\* result.importance * 10 in tenths, when result.importance is truthy
ImportanceScore(result) == result.importance

\* +5 when display_name.toLowerCase() includes the lower-cased location
MatchScore(result, locationLower) ==
  IF includes(toLowerCase(result.display_name), locationLower) THEN 50 ELSE 0

\* result.address?.country?.toLowerCase() || ''
CountryLower(result) ==
  IF result.address.present THEN OptLowerOrEmpty(result.address.country) ELSE <<>>

\* +3 for a country that includes 'canada' or 'united states'
CountryScore(result) ==
  IF \/ includes(CountryLower(result), canada)
     \/ includes(CountryLower(result), unitedStates)
    THEN 30 ELSE 0

\* the score the loop body computes for one candidate, in tenths
CandidateScore(result, locationLower) ==
  TypeScore(result) + ImportanceScore(result)
    + MatchScore(result, locationLower) + CountryScore(result)

\* the variant of Better: a later candidate with an equal score replaces the best
BetterOrEqual(score, bestScore) == score >= bestScore

\* if (score > bestScore)
Better(score, bestScore) == score > bestScore

RECURSIVE BestLoop(_, _, _, _, _)
\* the for loop of findBestNominatimResult from candidate k on; reading
\* display_name.toLowerCase() of a candidate without display_name throws
BestLoop(results, locationLower, k, bestIdx, bestScore) ==
  IF k > Len(results) THEN [threw |-> FALSE, idx |-> bestIdx]
  ELSE IF results[k].display_name = Absent THEN [threw |-> TRUE, idx |-> 0]
  ELSE LET score == CandidateScore(results[k], locationLower)
       IN  IF Better(score, bestScore)
             THEN BestLoop(results, locationLower, k + 1, k, score)
             ELSE BestLoop(results, locationLower, k + 1, bestIdx, bestScore)

\* bestResult = results[0], bestScore = 0, then the loop; idx is the position
\* of the returned candidate in results
findBestNominatimResult(results, originalLocation) ==
  BestLoop(results, toLowerCase(originalLocation), 1, 1, 0)

(***************************************************************************)
(* calculateNominatimConfidence.                                           *)
(***************************************************************************)
\* result.importance && result.importance > 0.7
HighImportance(result) == result.importance # 0 /\ result.importance > 70

\* result.importance && result.importance > 0.4
MediumImportance(result) == result.importance # 0 /\ result.importance > 40

\* the variant of IsHighConfidence: the importance threshold is inclusive
IsHighConfidenceInclusive(result, originalLocation) ==
  \/ includes(OptLowerOrEmpty(result.display_name), toLowerCase(originalLocation))
  \/ PostalTest(originalLocation)
  \/ (result.importance # 0 /\ result.importance >= 70)

\* the first if: exact match, postal code or high importance
IsHighConfidence(result, originalLocation) ==
  \/ includes(OptLowerOrEmpty(result.display_name), toLowerCase(originalLocation))
  \/ PostalTest(originalLocation)
  \/ HighImportance(result)

\* the second if: everything is under result.address &&
IsMediumConfidence(result, originalLocation) ==
  /\ result.address.present
  /\ \/ includes(toLowerCase(originalLocation), OptLowerArg(result.address.city))
     \/ includes(toLowerCase(originalLocation), OptLowerArg(result.address.town))
     \/ includes(toLowerCase(originalLocation), OptLowerArg(result.address.state))
     \/ MediumImportance(result)

calculateNominatimConfidence(result, originalLocation) ==
  IF IsHighConfidence(result, originalLocation) THEN "high"
  ELSE IF IsMediumConfidence(result, originalLocation) THEN "medium"
  ELSE "low"

(***************************************************************************)
(* calculatePhotonConfidence and formatPhotonDisplayName.                  *)
(***************************************************************************)
\* x?.toLowerCase().includes(locationLower): undefined when x is undefined
OptIncludes(x, locationLower) ==
  x # Absent /\ includes(toLowerCase(x), locationLower)

calculatePhotonConfidence(result, originalLocation) ==
  LET properties == result.properties
      locationLower == toLowerCase(originalLocation)
  IN  IF \/ OptIncludes(properties.name, locationLower)
         \/ includes(locationLower, OptLowerArg(properties.name))
         \/ properties.osm_key = "place"
        THEN "high"
      ELSE IF \/ OptIncludes(properties.city, locationLower)
              \/ OptIncludes(properties.state, locationLower)
              \/ OptIncludes(properties.street, locationLower)
        THEN "medium"
      ELSE "low"

\* a property that is a non-empty string
Truthy(x) == x # Absent /\ x # <<>>

UnknownLocation ==
  <<"U","n","k","n","o","w","n"," ","L","o","c","a","t","i","o","n">>

RECURSIVE Join(_)
\* parts.join(', ')
Join(parts) ==
  IF parts = <<>> THEN <<>>
  ELSE IF Len(parts) = 1 THEN parts[1]
  ELSE parts[1] \o <<",", " ">> \o Join(Tail(parts))

\* the variant of PhotonParts: the street is pushed before the name
PhotonPartsStreetFirst(properties) ==
  (IF Truthy(properties.street) THEN <<properties.street>> ELSE <<>>)
    \o (IF Truthy(properties.name) THEN <<properties.name>> ELSE <<>>)
    \o (IF Truthy(properties.city) THEN <<properties.city>> ELSE <<>>)
    \o (IF Truthy(properties.state) THEN <<properties.state>> ELSE <<>>)
    \o (IF Truthy(properties.country) THEN <<properties.country>> ELSE <<>>)

\* the pushes of formatPhotonDisplayName, in order
PhotonParts(properties) ==
  (IF Truthy(properties.name) THEN <<properties.name>> ELSE <<>>)
    \o (IF Truthy(properties.street) THEN <<properties.street>> ELSE <<>>)
    \o (IF Truthy(properties.city) THEN <<properties.city>> ELSE <<>>)
    \o (IF Truthy(properties.state) THEN <<properties.state>> ELSE <<>>)
    \o (IF Truthy(properties.country) THEN <<properties.country>> ELSE <<>>)

\* parts.join(', ') || 'Unknown Location'
formatPhotonDisplayName(properties) ==
  IF Join(PhotonParts(properties)) = <<>> THEN UnknownLocation
  ELSE Join(PhotonParts(properties))

\* x || ''
OrEmpty(x) == IF x = Absent THEN <<>> ELSE x

(***************************************************************************)
(* Provider answers: the candidates of a Nominatim answer and the features *)
(* of a Photon answer.                                                     *)
(***************************************************************************)
NoAddress ==
  [present |-> FALSE, country |-> Absent, city |-> Absent, town |-> Absent,
   village |-> Absent, state |-> Absent, province |-> Absent]

Addr(country, city, town, state) ==
  [present |-> TRUE, country |-> country, city |-> city, town |-> town,
   village |-> Absent, state |-> state, province |-> Absent]

Cand(display_name, importance, type, class, address, lat, lon) ==
  [display_name |-> display_name, importance |-> importance, type |-> type,
   class |-> class, address |-> address, lat |-> lat, lon |-> lon]

Feature(hasGeometry, lonLat, hasProperties, name, city, osm_key) ==
  [hasGeometry |-> hasGeometry, coordinates |-> lonLat,
   hasProperties |-> hasProperties,
   properties |-> [name |-> name, street |-> Absent, city |-> city,
                   state |-> Absent, country |-> Absent, osm_key |-> osm_key]]

sVancouver == <<"V","a","n","c","o","u","v","e","r">>

sVancouverBC ==
  <<"V","a","n","c","o","u","v","e","r",","," ","B","C",","," ",
    "C","a","n","a","d","a">>

sMainStreet == <<"M","a","i","n"," ","S","t","r","e","e","t">>

sCityHall == <<"C","i","t","y"," ","H","a","l","l">>

sCanada == <<"C","a","n","a","d","a">>

sMexico == <<"M","e","x","i","c","o">>

sUnitedStates == <<"U","n","i","t","e","d"," ","S","t","a","t","e","s">>

sPostal == <<"M","5","V"," ","3","L","9">>

sLat49 == <<"4","9">>

sLonW123 == <<"-","1","2","3">>

\* all sequences over S of length at most n
RECURSIVE SeqsUpTo(_, _)
SeqsUpTo(S, n) ==
  IF n = 0 THEN {<<>>}
  ELSE LET shorter == SeqsUpTo(S, n - 1)
       IN  shorter \cup {Append(q, c) : q \in {r \in shorter : Len(r) = n - 1}, c \in S}

(***************************************************************************)
(* The result objects of tryNominatim and tryPhoton.                       *)
(***************************************************************************)
\* the value of an attempt that produced no result object
NoResult ==
  [lat |-> Undefined, lon |-> Undefined, display_name |-> <<>>,
   confidence |-> "", source |-> "", country |-> <<>>, city |-> <<>>,
   state |-> <<>>]

\* a || b || c || '' over optional strings
FirstTruthy(xs) ==
  IF \E k \in DOMAIN xs : Truthy(xs[k])
    THEN xs[CHOOSE k \in DOMAIN xs :
              Truthy(xs[k]) /\ \A j \in 1..(k - 1) : ~Truthy(xs[j])]
    ELSE <<>>

\* the object literal tryNominatim returns for bestResult
NominatimObject(bestResult, location) ==
  [lat |-> parseFloat(bestResult.lat),
   lon |-> parseFloat(bestResult.lon),
   display_name |-> bestResult.display_name,
   confidence |-> calculateNominatimConfidence(bestResult, location),
   source |-> "nominatim",
   country |-> IF bestResult.address.present
                 THEN FirstTruthy(<<bestResult.address.country>>) ELSE <<>>,
   city |-> IF bestResult.address.present
              THEN FirstTruthy(<<bestResult.address.city, bestResult.address.town,
                                 bestResult.address.village>>)
              ELSE <<>>,
   state |-> IF bestResult.address.present
               THEN FirstTruthy(<<bestResult.address.state,
                                  bestResult.address.province>>)
               ELSE <<>>]

\* tryNominatim from the parsed body on: [kind, value] with kind "null" for
\* return null, "result" for the returned object, "throw" for an exception
NominatimOutcome(data, location) ==
  IF data.kind = "null" \/ Len(data.list) = 0
    THEN [kind |-> "null", value |-> NoResult]
  ELSE LET best == findBestNominatimResult(data.list, location)
       IN  IF best.threw THEN [kind |-> "throw", value |-> NoResult]
           ELSE [kind |-> "result",
                 value |-> NominatimObject(data.list[best.idx], location)]

\* coords[n] of a JSON array, n counted from 0
At(coords, n) == IF n + 1 \in DOMAIN coords THEN coords[n + 1] ELSE Undefined

\* the object literal tryPhoton returns for features[0]
PhotonObject(result, location) ==
  [lat |-> At(result.coordinates, 1),
   lon |-> At(result.coordinates, 0),
   display_name |-> formatPhotonDisplayName(result.properties),
   confidence |-> calculatePhotonConfidence(result, location),
   source |-> "photon",
   country |-> OrEmpty(result.properties.country),
   city |-> OrEmpty(result.properties.city),
   state |-> OrEmpty(result.properties.state)]

\* tryPhoton from the parsed body on; a feature without geometry or without
\* properties makes a property read throw
PhotonOutcome(data, location) ==
  IF data.kind = "null" \/ Len(data.features) = 0
    THEN [kind |-> "null", value |-> NoResult]
  ELSE IF ~data.features[1].hasGeometry \/ ~data.features[1].hasProperties
    THEN [kind |-> "throw", value |-> NoResult]
  ELSE [kind |-> "result", value |-> PhotonObject(data.features[1], location)]

\* tryMapBox: the body is commented out, it returns null
MapBoxOutcome == [kind |-> "null", value |-> NoResult]

(***************************************************************************)
(* Inputs of the cascade.                                                  *)
(***************************************************************************)
sLatBad == <<"n","/","a">>

sLat91 == <<"9","1">>

sLonW181 == <<"-","1","8","1">>

sPostalLower == <<"m","5","v","3","l","9">>

CascadeQueries == {sPostal, sPostalLower, <<"a","B">>, <<" ">>}

CascadeCandidates ==
  { Cand(<<"A","b","c">>, 80, "city", "", Addr(sCanada, <<"A">>, Absent, Absent),
         sLat49, sLonW123),
    Cand(<<"x">>, 10, "building", "", NoAddress, sLat49, sLonW123),
    Cand(Absent, 50, "town", "", NoAddress, sLat49, sLonW123),
    Cand(<<"x">>, 0, "", "place", NoAddress, sLatBad, sLonW123),
    Cand(<<"x">>, 0, "", "", NoAddress, Absent, Absent),
    Cand(<<"a","b">>, 50, "house", "", NoAddress, sLat91, sLonW181) }

\* the bodies Nominatim can answer with: null, or an array of candidates
NominatimAnswers ==
  {[kind |-> "null", list |-> <<>>]}
    \cup {[kind |-> "list", list |-> l] : l \in SeqsUpTo(CascadeCandidates, MaxCandidates)}

CascadeFeatures ==
  { Feature(TRUE, <<Num(0 - 123), Num(49)>>, TRUE, <<"A","b">>, Absent, "place"),
    Feature(TRUE, <<Num(49), Num(0 - 123)>>, TRUE, Absent, Absent, "highway"),
    Feature(TRUE, <<>>, TRUE, Absent, <<"x">>, "highway"),
    Feature(TRUE, <<[t |-> "string", v |-> 0], Num(49)>>, TRUE, <<"x">>, Absent, ""),
    Feature(FALSE, <<>>, TRUE, <<"x">>, Absent, ""),
    Feature(TRUE, <<Num(0 - 123), Num(49)>>, FALSE, Absent, Absent, "") }

\* the bodies Photon can answer with: null or no features, or features[0]
PhotonAnswers ==
  {[kind |-> "null", features |-> <<>>], [kind |-> "object", features |-> <<>>]}
    \cup {[kind |-> "object", features |-> <<f>>] : f \in CascadeFeatures}

(***************************************************************************)
(* generateLocationSuggestions.                                            *)
(***************************************************************************)
\* the array literal of generateLocationSuggestions
suggestions ==
  << "Try including province/state (e.g., \"Vancouver, BC\" or \"Seattle, WA\")",
     "Use full address (e.g., \"123 Main St, Toronto, ON\")",
     "Include postal/zip code (e.g., \"M5V 3L9\" or \"90210\")",
     "Try neighborhood name (e.g., \"Downtown Toronto\")",
     "Check spelling of city/region name" >>

canadianHint == "For Canadian locations, include province (e.g., \"Calgary, AB\")"

usHint == "For US locations, include state (e.g., \"Austin, TX\")"

sCanadian == <<"c","a","n","a","d","i","a","n">>

sUs == <<"u","s">>

sAmerica == <<"a","m","e","r","i","c","a">>

\* the variant of unshift: the hint is added at the end
push(list, x) == Append(list, x)

\* list.unshift(x)
unshift(list, x) == <<x>> \o list

generateLocationSuggestions(text) ==
  LET locationLower == toLowerCase(text)
      afterCanada ==
        IF includes(locationLower, canada) \/ includes(locationLower, sCanadian)
          THEN unshift(suggestions, canadianHint)
          ELSE suggestions
  IN  IF includes(locationLower, sUs) \/ includes(locationLower, sAmerica)
        THEN unshift(afterCanada, usHint)
        ELSE afterCanada

(***************************************************************************)
(* The answers of GET /api/geocode and GET /api/validate-location.         *)
(***************************************************************************)
RECURSIVE NatToString(_)
\* the decimal digits of a natural number
NatToString(n) ==
  IF n < 10 THEN <<DigitSeq[n + 1]>>
  ELSE NatToString(n \div 10) \o <<DigitSeq[(n % 10) + 1]>>

\* the text of the coordinate of CascadeFeatures that is a JSON string
sStringCoordinate == <<"x">>

\* x.toString() of a latitude or longitude: [threw, text]; reading a
\* property of undefined throws a TypeError
toString(x) ==
  CASE x.t = "number" ->
         [threw |-> FALSE,
          text |-> IF x.v < 0 THEN <<"-">> \o NatToString(0 - x.v)
                   ELSE NatToString(x.v)]
    [] x.t = "nan" -> [threw |-> FALSE, text |-> <<"N","a","N">>]
    [] x.t = "string" -> [threw |-> FALSE, text |-> sStringCoordinate]
    [] x.t = "undefined" -> [threw |-> TRUE, text |-> <<>>]

Null == [t |-> "null", v |-> 0]

\* res.json() of a number inside an array: NaN and undefined are written
\* as null
JsonNumber(x) == IF x.t \in {"nan", "undefined"} THEN Null ELSE x

NoResponse ==
  [status |-> 0, body |-> "none", entries |-> <<>>, location |-> <<>>,
   suggestions |-> <<>>]

\* res.status(status).json({ error: ... })
ErrorResponse(status) ==
  [status |-> status, body |-> "error", entries |-> <<>>, location |-> <<>>,
   suggestions |-> <<>>]

\* the try block of GET /api/geocode once enhancedGeocode has ended as o
GeocodeReply(o) ==
  IF o.kind = "threw" THEN ErrorResponse(500)
  ELSE IF o.kind = "result"
    THEN IF toString(o.value.lat).threw \/ toString(o.value.lon).threw
           THEN ErrorResponse(500)
           ELSE [status |-> 200, body |-> "array",
                 entries |-> << [lat |-> toString(o.value.lat).text,
                                 lon |-> toString(o.value.lon).text,
                                 display_name |-> o.value.display_name,
                                 confidence |-> o.value.confidence,
                                 source |-> o.value.source,
                                 country |-> o.value.country,
                                 city |-> o.value.city,
                                 state |-> o.value.state,
                                 type |-> "geocoded"] >>,
                 location |-> <<>>, suggestions |-> <<>>]
  ELSE [status |-> 200, body |-> "array", entries |-> <<>>, location |-> <<>>,
        suggestions |-> <<>>]

\* the variant of ValidateReply: a null is answered like a result
ValidateReplyAlwaysValid(o, text) ==
  IF o.kind = "threw" THEN ErrorResponse(500)
  ELSE [status |-> 200, body |-> "valid", entries |-> <<>>,
        location |-> << [address |-> text,
                         coordinates |-> <<JsonNumber(o.value.lat),
                                           JsonNumber(o.value.lon)>>,
                         confidence |-> o.value.confidence,
                         source |-> o.value.source,
                         displayName |-> o.value.display_name,
                         country |-> o.value.country,
                         city |-> o.value.city,
                         state |-> o.value.state] >>,
        suggestions |-> <<>>]

\* the try block of GET /api/validate-location once enhancedGeocode has
\* ended as o
ValidateReply(o, text) ==
  IF o.kind = "threw" THEN ErrorResponse(500)
  ELSE IF o.kind = "result"
    THEN [status |-> 200, body |-> "valid", entries |-> <<>>,
          location |-> << [address |-> text,
                           coordinates |-> <<JsonNumber(o.value.lat),
                                             JsonNumber(o.value.lon)>>,
                           confidence |-> o.value.confidence,
                           source |-> o.value.source,
                           displayName |-> o.value.display_name,
                           country |-> o.value.country,
                           city |-> o.value.city,
                           state |-> o.value.state] >>,
          suggestions |-> <<>>]
  ELSE [status |-> 200, body |-> "invalid", entries |-> <<>>, location |-> <<>>,
        suggestions |-> generateLocationSuggestions(text)]

(***************************************************************************)
(* State.                                                                  *)
(***************************************************************************)
VARIABLES
  location,   \* the argument of enhancedGeocode
  pc,         \* where the call is: "loop", "awaitFetch", "awaitJson", "done"
  i,          \* the loop index of enhancedGeocode
  timer,      \* the abort timer of the running lookup
  stalled,    \* the provider has stopped sending
  inflight,   \* the providers with an outstanding request
  calls,      \* the provider functions invoked, with their argument
  attempts,   \* how each invoked provider function ended
  outcome,    \* how enhancedGeocode ended
  pIn,        \* the arguments of a helper called on its own
  pOut,       \* what that helper returned
  endpoint,   \* the route of the request: "geocode" or "validate"
  handler,    \* where the route handler is: "received", "resolving", "responded"
  res,        \* the response the handler has sent
  runs,       \* how often the handler has called enhancedGeocode
  clientGoneAt, \* the number of provider calls made when the client went
                \* away, -1 while it is connected
  call,       \* the calls of enhancedGeocode that run at the same time
  index,      \* the loop index i of each of them
  overlapped, \* two of them have had a request outstanding at the same time
  row,        \* the row of the user in user_post_limits
  posts,      \* the number of rows of the user in posts created today
  req,        \* the POST /api/posts requests of the user
  today,      \* the current date, as a day number
  user_sessions, \* the rows of user_sessions
  now,        \* the clock, in seconds
  is_active,  \* users.is_active of the user
  guarded,    \* the requests to routes behind authenticateToken
  revoked,    \* the tokens for which a logout has succeeded
  issued,     \* the rows ever inserted into user_sessions
  postTable,  \* the rows of posts, by id
  edits,      \* the PUT and DELETE /api/posts/:id requests
  writers,    \* the users whose requests have written each post
  conversations, \* the rows of conversations; the index is the id
  messages,   \* the rows of messages; the index is the id
  chat,       \* the requests to the conversation and message routes
  formData,   \* location and locationData of formData in PostFormModal
  isLocationValid, \* isLocationValid of PostFormModal
  validationState, \* validationState of LocationInput
  locationData, \* locationData of LocationInput
  pending,    \* the argument the debounce timer will call the validation with
  fetches,    \* the validation requests that have not answered
  started,    \* the number of validation requests sent
  shown,      \* the request whose answer set validationState
  reported,   \* the last text and locationData passed to PostFormModal
  submitted,  \* the payload of handleSubmit
  coordinates, \* PostDetail: the coordinates state, and the source of its entry
  mapLoading, \* PostDetail: the mapLoading state
  geocoding,  \* the call of geocodeLocation
  elapsed,    \* whole seconds since geocodeLocation was called
  backend     \* the GET /api/geocode request of that call

vars ==
  <<location, pc, i, timer, stalled, inflight, calls, attempts, outcome, pIn, pOut,
    endpoint, handler, res, runs, clientGoneAt, call, index, overlapped,
    row, posts, req, today,
    user_sessions, now, is_active, guarded, revoked, issued,
    postTable, edits, writers,
    conversations, messages, chat,
    formData, isLocationValid, validationState, locationData, pending, fetches, started, shown, reported, submitted,
    coordinates, mapLoading, geocoding, elapsed, backend>>

httpVars == <<endpoint, handler, res, runs, clientGoneAt>>

pairVars == <<call, index, overlapped>>

limitVars == <<row, posts, req, today>>

authVars == <<user_sessions, now, is_active, guarded, revoked, issued>>

postVars == <<postTable, edits, writers>>

chatVars == <<conversations, messages, chat>>

formVars == <<formData, isLocationValid, validationState, locationData, pending, fetches, started, shown, reported, submitted>>

detailVars == <<coordinates, mapLoading, geocoding, elapsed, backend>>

callVars == <<location, pc, i, timer, stalled, inflight, calls, attempts, outcome>>

geocodeVars == <<callVars, pIn, pOut, httpVars>>

\* what the steps of a geocoding request or of a helper call leave alone
outsideGeocode ==
  <<pairVars, limitVars, authVars, postVars, chatVars, formVars, detailVars>>

\* what the steps of the calls that run at the same time leave alone
outsidePair ==
  <<geocodeVars, limitVars, authVars, postVars, chatVars, formVars, detailVars>>

\* what the steps of POST /api/posts leave alone
outsideLimits ==
  <<geocodeVars, pairVars, authVars, postVars, chatVars, formVars, detailVars>>

\* what the steps of the logins and the requests behind authenticateToken leave alone
outsideAuth ==
  <<geocodeVars, pairVars, limitVars, postVars, chatVars, formVars, detailVars>>

\* what the steps of PUT and DELETE /api/posts/:id leave alone
outsidePosts ==
  <<geocodeVars, pairVars, limitVars, authVars, chatVars, formVars, detailVars>>

\* what the steps of the conversation and message routes leave alone
outsideChat ==
  <<geocodeVars, pairVars, limitVars, authVars, postVars, formVars, detailVars>>

\* what the steps of the location field of the post form leave alone
outsideForm ==
  <<geocodeVars, pairVars, limitVars, authVars, postVars, chatVars, detailVars>>

\* what the steps of the map of the post page leave alone
outsideDetail ==
  <<geocodeVars, pairVars, limitVars, authVars, postVars, chatVars, formVars>>

\* sourceName, and the order of the geocoders array
geocoders == <<"Nominatim", "Photon", "MapBox">>

\* the closures () => tryX(location): every provider gets the location as is
QueryFor(provider, text) == text

\* the variant of AfterAttempt: a result does not end the loop
AfterAttemptNoReturn(kind) ==
  CASE kind = "result" -> "next"
    [] kind = "null" -> "next"
    [] kind = "throw" -> "next"

\* the variant of AfterAttempt: a provider without candidates ends the loop
AfterAttemptStopOnNull(kind) ==
  CASE kind = "result" -> "return"
    [] kind = "null" -> "returnNull"
    [] kind = "throw" -> "next"

\* the variant of AfterAttempt: the exception of a provider is not caught
AfterAttemptNoCatch(kind) ==
  CASE kind = "result" -> "return"
    [] kind = "null" -> "next"
    [] kind = "throw" -> "rethrow"

\* the variant of AfterAttempt: a failed provider is tried again
AfterAttemptRetry(kind) ==
  CASE kind = "result" -> "return"
    [] kind = "null" -> "next"
    [] kind = "throw" -> "retry"

\* the body of the for loop after await geocoder(): a truthy result is
\* returned, a null falls through to the next iteration, catch continues
AfterAttempt(kind) ==
  CASE kind = "result" -> "return"
    [] kind = "null" -> "next"
    [] kind = "throw" -> "next"

Pending == [kind |-> "pending", value |-> NoResult]

\* the provider function of iteration i ends with outcome o, having seen
\* n candidates (unnamed: one of them has no display_name);
\* enhancedGeocode goes on as AfterAttempt says
Finish(o, n, unnamed) ==
  /\ attempts' = Append(attempts,
                        [provider |-> geocoders[i + 1], kind |-> o.kind,
                         value |-> o.value, candidates |-> n,
                         unnamed |-> unnamed])
  /\ inflight' = {}
  /\ stalled' = FALSE
  /\ LET then == AfterAttempt(o.kind)
     IN  CASE then = "return" ->
                /\ pc' = "done"
                /\ outcome' = [kind |-> "result", value |-> o.value]
                /\ i' = i
           [] then = "returnNull" ->
                /\ pc' = "done"
                /\ outcome' = [kind |-> "null", value |-> NoResult]
                /\ i' = i
           [] then = "rethrow" ->
                /\ pc' = "done"
                /\ outcome' = [kind |-> "threw", value |-> NoResult]
                /\ i' = i
           [] then = "retry" ->
                /\ pc' = "loop"
                /\ outcome' = outcome
                /\ i' = i
           [] then = "next" ->
                /\ pc' = "loop"
                /\ outcome' = outcome
                /\ i' = i + 1

Thrown == [kind |-> "throw", value |-> NoResult]

(***************************************************************************)
(* enhancedGeocode, one call.                                              *)
(***************************************************************************)
NoInput == [fn |-> "none", location |-> <<>>, results |-> <<>>]

NoOutput ==
  [done |-> FALSE, confidence |-> "", threw |-> FALSE, idx |-> 0, text |-> <<>>,
   list |-> <<>>]

\* the calls of enhancedGeocode that run at the same time
Calls == {"first", "second", "other"}

\* the POST /api/posts requests of one user that run at the same time
Requests == {"r1", "r2"}

NoRow ==
  [present |-> FALSE, posts_today |-> 0, posts_this_week |-> 0,
   posts_this_month |-> 0, last_reset_date |-> 0, week_zeroed |-> 0,
   month_zeroed |-> 0]

NoCall ==
  [location |-> <<>>, responses |-> <<>>, pc |-> "idle", provider |-> "",
   outcome |-> Pending]

NoRequest == [pc |-> "idle", complete |-> FALSE, userLimits |-> NoRow, status |-> 0]

\* no calls of enhancedGeocode run side by side
PairIdle ==
  /\ call = [c \in Calls |-> NoCall]
  /\ index = [c \in Calls |-> 0]
  /\ overlapped = FALSE

\* no POST /api/posts request is under way
LimitsIdle ==
  /\ row = NoRow
  /\ posts = 0
  /\ req = [r \in Requests |-> NoRequest]
  /\ today = 0

\* no geocoding request and no helper call is under way
GeocodeIdle ==
  /\ pIn = NoInput
  /\ pOut = NoOutput
  /\ endpoint = "none"
  /\ handler = "none"
  /\ res = NoResponse
  /\ runs = 0
  /\ clientGoneAt = 0 - 1
  /\ location = <<>>
  /\ pc = "idle"
  /\ i = 0
  /\ timer = "none"
  /\ stalled = FALSE
  /\ inflight = {}
  /\ calls = <<>>
  /\ attempts = <<>>
  /\ outcome = Pending

NoToken == [userId |-> 0, iat |-> 0, exp |-> 0]

NoGuarded ==
  [pc |-> "idle", route |-> "", token |-> NoToken, status |-> 0, late |-> FALSE,
   accepted |-> FALSE, rowAtNext |-> FALSE]

\* no login and no request behind authenticateToken is under way
AuthIdle ==
  /\ user_sessions = {}
  /\ now = 0
  /\ is_active = FALSE
  /\ guarded = [r \in Requests |-> NoGuarded]
  /\ revoked = {}
  /\ issued = {}

\* the values of :id
PostIds == {1, 2}

NoPost == [present |-> FALSE, user_id |-> 0, subject |-> "", is_active |-> FALSE]

NoBody == [keys |-> {}, subject |-> "", is_active |-> FALSE]

NoEdit ==
  [pc |-> "idle", method |-> "", user |-> 0, id |-> 0, body |-> NoBody,
   status |-> 0]

\* no PUT or DELETE /api/posts/:id request is under way
PostsIdle ==
  /\ postTable = [p \in PostIds |-> NoPost]
  /\ edits = [r \in Requests |-> NoEdit]
  /\ writers = [p \in PostIds |-> {}]

NoParticipant == [type |-> "undefined", value |-> 0]

NoChat ==
  [pc |-> "idle", route |-> "", user |-> 0, participant_id |-> NoParticipant,
   id |-> 0, status |-> 0, conversation_id |-> 0, existed |-> {},
   seen |-> {}, marked |-> {}]

\* no request to a conversation or message route is under way
ChatIdle ==
  /\ conversations = <<>>
  /\ messages = <<>>
  /\ chat = [r \in Requests |-> NoChat]

\* locationData is null or undefined
NoLocationData == [present |-> FALSE, address |-> <<>>]

\* the debounce timer is not running
NoPending == [waiting |-> FALSE, address |-> <<>>]

NoShown == [address |-> <<>>, seq |-> 0, latest |-> 0]

NoReport == [text |-> <<>>, data |-> NoLocationData]

NoPayload ==
  [sent |-> FALSE, answered |-> FALSE, location |-> <<>>,
   locationData |-> NoLocationData]

\* the post form is not open
FormIdle ==
  /\ formData = [location |-> <<>>, locationData |-> NoLocationData]
  /\ isLocationValid = FALSE
  /\ validationState = "idle"
  /\ locationData = NoLocationData
  /\ pending = NoPending
  /\ fetches = {}
  /\ started = 0
  /\ shown = NoShown
  /\ reported = NoReport
  /\ submitted = NoPayload

\* useState<[number, number] | null>(null)
NoCoordinates == [set |-> FALSE, lat |-> NaN, lon |-> NaN, source |-> ""]

NoGeocoding == [pc |-> "idle", timeoutId |-> "none", data |-> "none"]

NoBackend ==
  [pc |-> "none", Nominatim |-> Pending, Photon |-> Pending, due |-> 0,
   timedOut |-> FALSE, reply |-> NoResponse]

\* the post page is not modelled
DetailIdle ==
  /\ coordinates = NoCoordinates
  /\ mapLoading = FALSE
  /\ geocoding = NoGeocoding
  /\ elapsed = 0
  /\ backend = NoBackend

OutsideGeocodeIdle ==
  /\ PairIdle
  /\ LimitsIdle
  /\ AuthIdle
  /\ PostsIdle
  /\ ChatIdle
  /\ FormIdle
  /\ DetailIdle

OutsidePairIdle ==
  /\ GeocodeIdle
  /\ LimitsIdle
  /\ AuthIdle
  /\ PostsIdle
  /\ ChatIdle
  /\ FormIdle
  /\ DetailIdle

OutsideLimitsIdle ==
  /\ GeocodeIdle
  /\ PairIdle
  /\ AuthIdle
  /\ PostsIdle
  /\ ChatIdle
  /\ FormIdle
  /\ DetailIdle

OutsideAuthIdle ==
  /\ GeocodeIdle
  /\ PairIdle
  /\ LimitsIdle
  /\ PostsIdle
  /\ ChatIdle
  /\ FormIdle
  /\ DetailIdle

OutsidePostsIdle ==
  /\ GeocodeIdle
  /\ PairIdle
  /\ LimitsIdle
  /\ AuthIdle
  /\ ChatIdle
  /\ FormIdle
  /\ DetailIdle

OutsideChatIdle ==
  /\ GeocodeIdle
  /\ PairIdle
  /\ LimitsIdle
  /\ AuthIdle
  /\ PostsIdle
  /\ FormIdle
  /\ DetailIdle

OutsideFormIdle ==
  /\ GeocodeIdle
  /\ PairIdle
  /\ LimitsIdle
  /\ AuthIdle
  /\ PostsIdle
  /\ ChatIdle
  /\ DetailIdle

OutsideDetailIdle ==
  /\ GeocodeIdle
  /\ PairIdle
  /\ LimitsIdle
  /\ AuthIdle
  /\ PostsIdle
  /\ ChatIdle
  /\ FormIdle

\* the values of the location parameter: the texts of the cascade and ''
RequestLocations == CascadeQueries \cup {<<>>}

Init ==
  /\ location \in RequestLocations
  /\ endpoint \in {"geocode", "validate"}
  /\ handler = "received"
  /\ res = NoResponse
  /\ runs = 0
  /\ clientGoneAt = 0 - 1
  /\ pc = "idle"
  /\ i = 0
  /\ timer = "none"
  /\ stalled = FALSE
  /\ inflight = {}
  /\ calls = <<>>
  /\ attempts = <<>>
  /\ outcome = Pending
  /\ pIn = NoInput
  /\ pOut = NoOutput
  /\ OutsideGeocodeIdle

\* iteration i calls tryNominatim or tryPhoton: the abort timer is set and
\* the request is sent
StartLookup ==
  /\ pc = "loop"
  /\ i < Len(geocoders)
  /\ geocoders[i + 1] \in {"Nominatim", "Photon"}
  /\ calls' = Append(calls, [provider |-> geocoders[i + 1],
                             q |-> QueryFor(geocoders[i + 1], location)])
  /\ timer' = "armed"
  /\ inflight' = inflight \cup {geocoders[i + 1]}
  /\ stalled' = FALSE
  /\ pc' = "awaitFetch"
  /\ UNCHANGED <<location, i, attempts, outcome, pIn, pOut>>
  /\ UNCHANGED <<httpVars, outsideGeocode>>

\* iteration i calls tryMapBox, which sends nothing and returns null
CallMapBox ==
  /\ pc = "loop"
  /\ i < Len(geocoders)
  /\ geocoders[i + 1] = "MapBox"
  /\ calls' = Append(calls, [provider |-> geocoders[i + 1],
                             q |-> QueryFor(geocoders[i + 1], location)])
  /\ Finish(MapBoxOutcome, 0, FALSE)
  /\ UNCHANGED <<location, timer, pIn, pOut>>
  /\ UNCHANGED <<httpVars, outsideGeocode>>

\* the response headers arrive: clearTimeout, then !response.ok throws
FetchResolves ==
  /\ pc = "awaitFetch"
  /\ ~stalled
  /\ timer' = "cleared"
  /\ \E ok \in BOOLEAN :
       IF ok
         THEN /\ pc' = "awaitJson"
              /\ UNCHANGED <<i, stalled, inflight, attempts, outcome>>
         ELSE Finish(Thrown, 0, FALSE)
  /\ UNCHANGED <<location, calls, pIn, pOut>>
  /\ UNCHANGED <<httpVars, outsideGeocode>>

\* the request fails (connection error): catch clears the timer and rethrows
FetchRejects ==
  /\ pc = "awaitFetch"
  /\ ~stalled
  /\ timer' = "cleared"
  /\ Finish(Thrown, 0, FALSE)
  /\ UNCHANGED <<location, calls, pIn, pOut>>
  /\ UNCHANGED <<httpVars, outsideGeocode>>

\* the 5 second timer fires: controller.abort() rejects the pending fetch
TimerFires ==
  /\ timer = "armed"
  /\ timer' = "fired"
  /\ Finish(Thrown, 0, FALSE)
  /\ UNCHANGED <<location, calls, pIn, pOut>>
  /\ UNCHANGED <<httpVars, outsideGeocode>>

\* response.json() resolves with the parsed body and the provider function
\* runs to its end
JsonResolves ==
  /\ pc = "awaitJson"
  /\ ~stalled
  /\ \/ /\ geocoders[i + 1] = "Nominatim"
        /\ \E data \in NominatimAnswers :
             Finish(NominatimOutcome(data, calls[Len(calls)].q), Len(data.list),
                    \E k \in DOMAIN data.list : data.list[k].display_name = Absent)
     \/ /\ geocoders[i + 1] = "Photon"
        /\ \E data \in PhotonAnswers :
             Finish(PhotonOutcome(data, calls[Len(calls)].q), Len(data.features), FALSE)
  /\ UNCHANGED <<location, timer, calls, pIn, pOut>>
  /\ UNCHANGED <<httpVars, outsideGeocode>>

\* response.json() rejects (the body is no JSON, or the connection breaks)
JsonRejects ==
  /\ pc = "awaitJson"
  /\ ~stalled
  /\ Finish(Thrown, 0, FALSE)
  /\ UNCHANGED <<location, timer, calls, pIn, pOut>>
  /\ UNCHANGED <<httpVars, outsideGeocode>>

\* the provider stops sending, before the headers or within the body
ProviderStalls ==
  /\ pc \in {"awaitFetch", "awaitJson"}
  /\ ~stalled
  /\ stalled' = TRUE
  /\ UNCHANGED <<location, pc, i, timer, inflight, calls, attempts, outcome, pIn, pOut>>
  /\ UNCHANGED <<httpVars, outsideGeocode>>

\* the loop is over: return null
ReturnNull ==
  /\ pc = "loop"
  /\ i >= Len(geocoders)
  /\ pc' = "done"
  /\ outcome' = [kind |-> "null", value |-> NoResult]
  /\ UNCHANGED <<location, i, timer, stalled, inflight, calls, attempts, pIn, pOut>>
  /\ UNCHANGED <<httpVars, outsideGeocode>>

\* the steps of enhancedGeocode
NextCall ==
  \/ StartLookup
  \/ CallMapBox
  \/ FetchResolves
  \/ FetchRejects
  \/ TimerFires
  \/ JsonResolves
  \/ JsonRejects
  \/ ProviderStalls
  \/ ReturnNull

\* the handler runs up to await enhancedGeocode(location): a missing or
\* empty location is answered with 400
HandleRequest ==
  /\ handler = "received"
  /\ IF location = <<>>
       THEN /\ res' = ErrorResponse(400)
            /\ handler' = "responded"
            /\ UNCHANGED <<pc, runs>>
       ELSE /\ handler' = "resolving"
            /\ runs' = runs + 1
            /\ pc' = "loop"
            /\ res' = res
  /\ UNCHANGED <<location, i, timer, stalled, inflight, calls, attempts, outcome,
                 pIn, pOut, endpoint, clientGoneAt>>
  /\ UNCHANGED outsideGeocode

\* enhancedGeocode has ended: the handler answers, or its catch does
Respond ==
  /\ handler = "resolving"
  /\ pc = "done"
  /\ res' = IF endpoint = "geocode" THEN GeocodeReply(outcome)
            ELSE ValidateReply(outcome, location)
  /\ handler' = "responded"
  /\ UNCHANGED <<callVars, pIn, pOut, endpoint, runs, clientGoneAt>>
  /\ UNCHANGED outsideGeocode

\* the client closes the connection before the answer; neither handler
\* listens for it
ClientDisconnects ==
  /\ handler \in {"received", "resolving"}
  /\ clientGoneAt < 0
  /\ clientGoneAt' = Len(calls)
  /\ UNCHANGED <<callVars, pIn, pOut, endpoint, handler, res, runs>>
  /\ UNCHANGED outsideGeocode

Next ==
  \/ HandleRequest
  \/ NextCall
  \/ Respond
  \/ ClientDisconnects

Spec == Init /\ [][Next]_vars

(***************************************************************************)
(* The helpers called on their own: calculateNominatimConfidence on one    *)
(* candidate, findBestNominatimResult on a list.                           *)
(***************************************************************************)
ShortAlphabet == {"a", "B", " "}

\* strings shaped like a postal code, and near misses of every position
PostalLike ==
  { <<a, b, "V">> \o sp \o <<"3", e, f>> :
      a \in {"M", "5"}, b \in {"5", "v"},
      sp \in {<<>>, <<" ">>, <<"\t">>, <<" ", " ">>, <<"-">>},
      e \in {"l", "9"}, f \in {"9", "L"} }

ConfidenceQueries ==
  PostalLike \cup {sVancouver, sMainStreet, UndefinedText}
    \cup SeqsUpTo(ShortAlphabet, MaxQueryLen)

ConfidenceCandidates ==
  { Cand(dn, imp, IF dn = sVancouverBC THEN "city" ELSE "building", "", addr,
         sLat49, sLonW123) :
      dn \in {Absent, <<"a", "b">>, <<"x">>, sVancouverBC, sCityHall},
      imp \in {0, 10, 40, 41, 70, 71, 80},
      addr \in {NoAddress,
                Addr(Absent, Absent, Absent, Absent),
                Addr(sCanada, <<"A">>, Absent, Absent),
                Addr(Absent, Absent, <<"b">>, Absent),
                Addr(Absent, Absent, Absent, <<"B", " ">>),
                Addr(sCanada, sVancouver, Absent, <<"B", "C">>)} }

ConfidenceInputs ==
  { [fn |-> "confidence", location |-> q, results |-> <<c>>] :
      q \in ConfidenceQueries, c \in ConfidenceCandidates }

BestQueries == {<<"a", "b">>, <<"z">>}

BestCandidates ==
  { Cand(dn, imp, ty, "", addr, sLat49, sLonW123) :
      dn \in {<<"A", "b", "c">>, <<"x">>},
      imp \in {0, 10},
      ty \in {"city", "town"},
      addr \in {NoAddress,
                Addr(sCanada, Absent, Absent, Absent),
                Addr(sMexico, Absent, Absent, Absent)} }
    \cup {Cand(<<"x">>, 0, "suburb", "", Addr(sUnitedStates, Absent, Absent, Absent),
                sLat49, sLonW123),
          Cand(<<"x">>, 10, "", "town", NoAddress, sLat49, sLonW123),
          Cand(<<"x">>, 0, "", "", NoAddress, sLat49, sLonW123),
          Cand(Absent, 10, "city", "", NoAddress, sLat49, sLonW123)}

BestInputs ==
  { [fn |-> "best", location |-> q, results |-> l] :
      q \in BestQueries, l \in SeqsUpTo(BestCandidates, MaxCandidates) \ {<<>>} }

sUSA == <<"U","S","A">>

sAustin == <<"A","u","s","t","i","n">>

sToronto == <<"T","o","r","o","n","t","o">>

\* texts with and without the words generateLocationSuggestions looks for
SuggestionQueries ==
  { sCanada, canada, sCanadian, <<"C","A","N","A","D","A">>,
    <<"c","a","n","a","d">>, <<"c","a","n","a","d","i","a">>,
    sUSA, sUs, <<"u"," ","s">>, <<"U","s">>, sAustin, sToronto, sAmerica,
    <<"A","m","e","r","i","c","a">>, <<"a","m","e","r","i","c">>,
    sCanada \o <<" ">> \o sUSA, sAmerica \o <<" ">> \o sCanadian,
    sUSA \o <<",", " ">> \o sCanada, sVancouverBC, sUnitedStates }
    \cup SeqsUpTo({"u", "s", "S"}, MaxQueryLen)

SuggestionInputs ==
  { [fn |-> "suggest", location |-> q, results |-> <<>>] : q \in SuggestionQueries }

\* the properties of a Photon feature
Properties(name, street, city, state, country, osm_key) ==
  [name |-> name, street |-> street, city |-> city, state |-> state,
   country |-> country, osm_key |-> osm_key]

sUndefinedRoad == UndefinedText \o <<" ">> \o <<"r","o","a","d">>

PhotonConfidenceQueries ==
  {sVancouver, UndefinedText, sUndefinedRoad, <<"a", "B", "c">>}
    \cup SeqsUpTo(ShortAlphabet, MaxQueryLen)

PhotonConfidenceFeatures ==
  { [hasGeometry |-> TRUE, coordinates |-> <<Num(0 - 123), Num(49)>>,
     hasProperties |-> TRUE,
     properties |-> Properties(name, street, city, state, Absent, osm_key)] :
      name \in {Absent, <<>>, <<"A">>, <<"a", "b", "c", "d">>, sVancouverBC},
      street \in {Absent, <<"a", "B">>},
      city \in {Absent, <<>>, <<"B">>, sVancouver},
      state \in {Absent, <<"a", " ">>},
      osm_key \in {"place", "highway", ""} }

PhotonConfidenceInputs ==
  { [fn |-> "photonConfidence", location |-> q, results |-> <<f>>] :
      q \in PhotonConfidenceQueries, f \in PhotonConfidenceFeatures }

FormatFields == {Absent, <<>>, <<"a">>, <<"b", "c">>}

FormatInputs ==
  { [fn |-> "format", location |-> <<>>,
     results |-> <<Properties(name, street, city, state, country, "")>>] :
      name \in FormatFields, street \in FormatFields, city \in FormatFields,
      state \in FormatFields, country \in FormatFields }

(***************************************************************************)
(* parseCoordinates of shared/coordinateUtils.ts.  A value of latitude or  *)
(* longitude is undefined, a number of whole degrees, NaN or a string.     *)
(***************************************************************************)
CoordUndefined == [t |-> "undefined", v |-> 0, s |-> <<>>]

CoordNumber(n) == [t |-> "number", v |-> n, s |-> <<>>]

CoordNaN == [t |-> "nan", v |-> 0, s |-> <<>>]

CoordString(s) == [t |-> "string", v |-> 0, s |-> s]

\* !x
Not(x) ==
  CASE x.t = "undefined" -> TRUE
    [] x.t = "nan" -> TRUE
    [] x.t = "number" -> x.v = 0
    [] x.t = "string" -> x.s = <<>>

\* parseFloat(x as string): a number is converted to its text and read back
parseFloatOfValue(x) ==
  CASE x.t = "undefined" -> NaN
    [] x.t = "nan" -> NaN
    [] x.t = "number" -> Num(x.v)
    [] x.t = "string" -> parseFloat(x.s)

NullCoordinates == [isNull |-> TRUE, lat |-> 0, lng |-> 0]

parseCoordinates(data) ==
  IF Not(data.latitude) \/ Not(data.longitude) THEN NullCoordinates
  ELSE LET lat == parseFloatOfValue(data.latitude)
           lng == parseFloatOfValue(data.longitude)
       IN  IF lat.t = "nan" \/ lng.t = "nan" THEN NullCoordinates
           ELSE IF lat.v < 0 - 90 \/ lat.v > 90 \/ lng.v < 0 - 180 \/ lng.v > 180
             THEN NullCoordinates
           ELSE [isNull |-> FALSE, lat |-> lat.v, lng |-> lng.v]

CoordinateValues ==
  { CoordUndefined, CoordNaN, CoordString(<<>>), CoordString(<<"0">>),
    CoordString(sLat49), CoordString(sLonW123), CoordString(sLat91),
    CoordString(sLonW181), CoordString(sLatBad), CoordString(<<"4", "9", "x">>) }
    \cup { CoordNumber(n) : n \in {0, 49, 90, 91, 180, 181,
                                     0 - 90, 0 - 91, 0 - 123, 0 - 180, 0 - 181} }

CoordinateInputs ==
  { [fn |-> "coordinates", location |-> <<>>,
     results |-> <<[latitude |-> lat, longitude |-> lng]>>] :
      lat \in CoordinateValues, lng \in CoordinateValues }

InitPure ==
  /\ pIn \in ConfidenceInputs \cup BestInputs \cup SuggestionInputs
              \cup PhotonConfidenceInputs \cup FormatInputs
              \cup CoordinateInputs
  /\ pOut = NoOutput
  /\ endpoint = "none"
  /\ handler = "none"
  /\ res = NoResponse
  /\ runs = 0
  /\ clientGoneAt = 0 - 1
  /\ location = <<>>
  /\ pc = "idle"
  /\ i = 0
  /\ timer = "none"
  /\ stalled = FALSE
  /\ inflight = {}
  /\ calls = <<>>
  /\ attempts = <<>>
  /\ outcome = Pending
  /\ OutsideGeocodeIdle

\* calculateNominatimConfidence(result, originalLocation) is called
CallConfidence ==
  /\ pIn.fn = "confidence"
  /\ ~pOut.done
  /\ pOut' = [done |-> TRUE,
              confidence |-> calculateNominatimConfidence(pIn.results[1], pIn.location),
              threw |-> FALSE, idx |-> 0, text |-> <<>>, list |-> <<>>]
  /\ UNCHANGED <<pIn, callVars>>
  /\ UNCHANGED <<httpVars, outsideGeocode>>

\* findBestNominatimResult(results, originalLocation) is called
CallFindBest ==
  /\ pIn.fn = "best"
  /\ ~pOut.done
  /\ LET best == findBestNominatimResult(pIn.results, pIn.location)
     IN  pOut' = [done |-> TRUE, confidence |-> "",
                  threw |-> best.threw, idx |-> best.idx, text |-> <<>>,
                  list |-> <<>>]
  /\ UNCHANGED <<pIn, callVars>>
  /\ UNCHANGED <<httpVars, outsideGeocode>>

\* generateLocationSuggestions(location) is called
CallSuggestions ==
  /\ pIn.fn = "suggest"
  /\ ~pOut.done
  /\ pOut' = [done |-> TRUE, confidence |-> "", threw |-> FALSE, idx |-> 0,
              text |-> <<>>, list |-> generateLocationSuggestions(pIn.location)]
  /\ UNCHANGED <<pIn, callVars>>
  /\ UNCHANGED <<httpVars, outsideGeocode>>

\* calculatePhotonConfidence(result, originalLocation) is called
CallPhotonConfidence ==
  /\ pIn.fn = "photonConfidence"
  /\ ~pOut.done
  /\ pOut' = [done |-> TRUE,
              confidence |-> calculatePhotonConfidence(pIn.results[1], pIn.location),
              threw |-> FALSE, idx |-> 0, text |-> <<>>, list |-> <<>>]
  /\ UNCHANGED <<pIn, callVars>>
  /\ UNCHANGED <<httpVars, outsideGeocode>>

\* formatPhotonDisplayName(properties) is called
CallFormat ==
  /\ pIn.fn = "format"
  /\ ~pOut.done
  /\ pOut' = [done |-> TRUE, confidence |-> "", threw |-> FALSE, idx |-> 0,
              text |-> formatPhotonDisplayName(pIn.results[1]), list |-> <<>>]
  /\ UNCHANGED <<pIn, callVars>>
  /\ UNCHANGED <<httpVars, outsideGeocode>>

\* parseCoordinates(data) is called: list holds lat and lng, or nothing
\* when null is returned
CallParseCoordinates ==
  /\ pIn.fn = "coordinates"
  /\ ~pOut.done
  /\ LET pair == parseCoordinates(pIn.results[1])
     IN  pOut' = [done |-> TRUE, confidence |-> "", threw |-> FALSE, idx |-> 0,
                  text |-> <<>>,
                  list |-> IF pair.isNull THEN <<>> ELSE <<pair.lat, pair.lng>>]
  /\ UNCHANGED <<pIn, callVars>>
  /\ UNCHANGED <<httpVars, outsideGeocode>>

NextPure ==
  \/ CallConfidence
  \/ CallFindBest
  \/ CallSuggestions
  \/ CallPhotonConfidence
  \/ CallFormat
  \/ CallParseCoordinates

SpecPure == InitPure /\ [][NextPure]_vars

(***************************************************************************)
(* Calls of enhancedGeocode that run at the same time.  Every call has its *)
(* own location, geocoders and i; each provider answers a call with the    *)
(* response chosen for that call.                                          *)
(***************************************************************************)
PairLocations == {sPostal, <<"a", "B">>}

\* what Nominatim answers to a call: no candidate, or two candidates
PairNominatim ==
  { [kind |-> "list", list |-> <<>>],
    [kind |-> "list",
     list |-> << Cand(<<"x">>, 10, "building", "", NoAddress, sLat49, sLonW123),
                 Cand(<<"A","b","c">>, 80, "city", "",
                      Addr(sCanada, <<"A">>, Absent, Absent), sLat49, sLonW123) >>] }

\* what Photon answers to a call: the request fails, or one feature
PairPhoton ==
  { [kind |-> "fail", features |-> <<>>],
    [kind |-> "object",
     features |-> << Feature(TRUE, <<Num(0 - 123), Num(49)>>, TRUE,
                             <<"A","b">>, Absent, "place") >>] }

\* the provider function of a call that gets this response
ProviderOutcome(provider, response, text) ==
  IF provider = "MapBox" THEN MapBoxOutcome
  ELSE IF response.kind = "fail" THEN Thrown
  ELSE IF provider = "Nominatim" THEN NominatimOutcome(response, text)
  ELSE PhotonOutcome(response, text)

\* the variant of Slot: one i for all calls
SlotShared(c) == "first"

\* for (let i = 0; ...): every call has its own i
Slot(c) == c

InitPair ==
  /\ call \in [Calls -> { [location |-> l,
                           responses |-> [Nominatim |-> n, Photon |-> f],
                           pc |-> "loop", provider |-> "", outcome |-> Pending] :
                            l \in PairLocations, n \in PairNominatim,
                            f \in PairPhoton }]
  /\ index = [c \in Calls |-> 0]
  /\ overlapped = FALSE
  /\ OutsidePairIdle

\* call c sends the request of its iteration i
PairStart(c) ==
  /\ call[c].pc = "loop"
  /\ index[Slot(c)] < Len(geocoders)
  /\ geocoders[index[Slot(c)] + 1] \in {"Nominatim", "Photon"}
  /\ call' = [call EXCEPT ![c].pc = "await",
                          ![c].provider = geocoders[index[Slot(c)] + 1]]
  /\ overlapped' = (overlapped \/ \E d \in Calls \ {c} : call[d].pc = "await")
  /\ UNCHANGED index
  /\ UNCHANGED outsidePair

\* the provider function of call c ends with outcome o; the loop of the
\* call goes on as AfterAttempt says
PairFinish(c, o) ==
  LET then == AfterAttempt(o.kind)
  IN  CASE then = "return" ->
             /\ call' = [call EXCEPT ![c].pc = "done", ![c].provider = "",
                                     ![c].outcome = [kind |-> "result",
                                                     value |-> o.value]]
             /\ index' = index
        [] then = "returnNull" ->
             /\ call' = [call EXCEPT ![c].pc = "done", ![c].provider = "",
                                     ![c].outcome = [kind |-> "null",
                                                     value |-> NoResult]]
             /\ index' = index
        [] then = "rethrow" ->
             /\ call' = [call EXCEPT ![c].pc = "done", ![c].provider = "",
                                     ![c].outcome = [kind |-> "threw",
                                                     value |-> NoResult]]
             /\ index' = index
        [] then = "retry" ->
             /\ call' = [call EXCEPT ![c].pc = "loop", ![c].provider = ""]
             /\ index' = index
        [] then = "next" ->
             /\ call' = [call EXCEPT ![c].pc = "loop", ![c].provider = ""]
             /\ index' = [index EXCEPT ![Slot(c)] = @ + 1]

\* the request of call c ends: with its response, or by failing
PairEnd(c) ==
  /\ call[c].pc = "await"
  /\ PairFinish(c, ProviderOutcome(call[c].provider,
                                   call[c].responses[call[c].provider],
                                   call[c].location))
  /\ UNCHANGED overlapped
  /\ UNCHANGED outsidePair

\* iteration i of call c calls tryMapBox
PairMapBox(c) ==
  /\ call[c].pc = "loop"
  /\ index[Slot(c)] < Len(geocoders)
  /\ geocoders[index[Slot(c)] + 1] = "MapBox"
  /\ PairFinish(c, MapBoxOutcome)
  /\ UNCHANGED overlapped
  /\ UNCHANGED outsidePair

\* the loop of call c is over: return null
PairReturnNull(c) ==
  /\ call[c].pc = "loop"
  /\ index[Slot(c)] >= Len(geocoders)
  /\ call' = [call EXCEPT ![c].pc = "done",
                          ![c].outcome = [kind |-> "null", value |-> NoResult]]
  /\ UNCHANGED <<index, overlapped>>
  /\ UNCHANGED outsidePair

NextPair ==
  \E c \in Calls :
    \/ PairStart(c)
    \/ PairEnd(c)
    \/ PairMapBox(c)
    \/ PairReturnNull(c)

SpecPair == InitPair /\ [][NextPair]_vars

(***************************************************************************)
(* POST /api/posts behind checkPostLimits: the requests of one user, who   *)
(* is authenticated; every awaited query is one step.                      *)
(***************************************************************************)
DAILY_LIMIT == 5

WEEKLY_LIMIT == 20

MONTHLY_LIMIT == 50

\* posts_today, posts_this_week, posts_this_month of the row at the start
LimitCounters ==
  { <<0, 0, 0>>, <<4, 4, 4>>, <<5, 5, 5>>, <<0, 19, 19>>, <<1, 20, 25>>,
    <<3, 10, 49>>, <<0, 0, 50>> }

\* how many days before today the row was last reset
ResetAges == {0, 1, 7, 30}

\* week_zeroed and month_zeroed are no columns: they keep the day on which
\* posts_this_week and posts_this_month were last set to 0, which is no later
\* than the day the row was last reset
Row(counters, date) ==
  [present |-> TRUE, posts_today |-> counters[1], posts_this_week |-> counters[2],
   posts_this_month |-> counters[3], last_reset_date |-> date,
   week_zeroed |-> date, month_zeroed |-> date]

\* the row is missing, or it was reset today and counts the posts of today,
\* or it was reset on an earlier day and no post was made today
InitLimits ==
  /\ today = 30
  /\ \/ row = NoRow /\ posts = 0
     \/ \E c \in LimitCounters, age \in ResetAges :
          /\ row = Row(c, today - age)
          /\ posts = IF age = 0 THEN c[1] ELSE 0
  /\ req \in [Requests -> { [pc |-> "checkPostLimits", complete |-> b,
                             userLimits |-> NoRow, status |-> 0] :
                              b \in BOOLEAN }]
  /\ OutsideLimitsIdle

\* res.status(status).json(...) ends the request
Answer(r, status) == [req[r] EXCEPT !.pc = "done", !.status = status]

\* one of the three tests of checkPostLimits answers 429
OverLimit(userLimits) ==
  \/ userLimits.posts_today >= DAILY_LIMIT
  \/ userLimits.posts_this_week >= WEEKLY_LIMIT
  \/ userLimits.posts_this_month >= MONTHLY_LIMIT

\* checkPostLimits from const userLimits = limits[0] on, and after next()
\* the handler up to its first query: the request as it is when it awaits
\* again or has answered
Checked(r, userLimits) ==
  IF userLimits.last_reset_date < today
    THEN [req[r] EXCEPT !.pc = "reset", !.userLimits = userLimits]
  ELSE IF OverLimit(userLimits)
    THEN [req[r] EXCEPT !.pc = "done", !.status = 429, !.userLimits = userLimits]
  ELSE IF ~req[r].complete
    THEN [req[r] EXCEPT !.pc = "done", !.status = 400, !.userLimits = userLimits]
  ELSE [req[r] EXCEPT !.pc = "insertPost", !.userLimits = userLimits]

\* SELECT * FROM user_post_limits WHERE user_id = ?
SelectLimits(r) ==
  /\ req[r].pc = "checkPostLimits"
  /\ req' = [req EXCEPT ![r] = IF row.present THEN Checked(r, row)
                               ELSE [req[r] EXCEPT !.pc = "insertLimits"]]
  /\ UNCHANGED <<row, posts, today>>
  /\ UNCHANGED outsideLimits

\* INSERT INTO user_post_limits (user_id, last_reset_date): user_id is a
\* unique key, a second row is refused and the catch answers 500
InsertLimits(r) ==
  /\ req[r].pc = "insertLimits"
  /\ IF row.present
       THEN /\ req' = [req EXCEPT ![r] = Answer(r, 500)]
            /\ row' = row
       ELSE /\ req' = [req EXCEPT ![r].pc = "reselect"]
            /\ row' = Row(<<0, 0, 0>>, today)
  /\ UNCHANGED <<posts, today>>
  /\ UNCHANGED outsideLimits

\* the SELECT after the INSERT
ReselectLimits(r) ==
  /\ req[r].pc = "reselect"
  /\ req' = [req EXCEPT ![r] = Checked(r, row)]
  /\ UNCHANGED <<row, posts, today>>
  /\ UNCHANGED outsideLimits

\* UPDATE user_post_limits SET <resetData>: daysDiff is taken from the row
\* as it was read
ResetLimits(r) ==
  /\ req[r].pc = "reset"
  /\ LET daysDiff == today - req[r].userLimits.last_reset_date
     IN  row' = [row EXCEPT !.posts_today = 0,
                            !.posts_this_week = IF daysDiff >= 7 THEN 0 ELSE @,
                            !.posts_this_month = IF daysDiff >= 30 THEN 0 ELSE @,
                            !.last_reset_date = today,
                            !.week_zeroed = IF daysDiff >= 7 THEN today ELSE @,
                            !.month_zeroed = IF daysDiff >= 30 THEN today ELSE @]
  /\ req' = [req EXCEPT ![r].pc = "refresh"]
  /\ UNCHANGED <<posts, today>>
  /\ UNCHANGED outsideLimits

\* the SELECT after the reset, then userLimits = limits[0]: userLimits is a
\* const, the assignment throws and the catch answers 500
RefreshLimits(r) ==
  /\ req[r].pc = "refresh"
  /\ req' = [req EXCEPT ![r] = Answer(r, 500)]
  /\ UNCHANGED <<row, posts, today>>
  /\ UNCHANGED outsideLimits

\* INSERT INTO posts
InsertPost(r) ==
  /\ req[r].pc = "insertPost"
  /\ posts' = posts + 1
  /\ req' = [req EXCEPT ![r].pc = "updateLimits"]
  /\ UNCHANGED <<row, today>>
  /\ UNCHANGED outsideLimits

\* UPDATE user_post_limits SET posts_today = posts_today + 1, ...; then 201
UpdateLimits(r) ==
  /\ req[r].pc = "updateLimits"
  /\ row' = [row EXCEPT !.posts_today = @ + 1, !.posts_this_week = @ + 1,
                        !.posts_this_month = @ + 1]
  /\ req' = [req EXCEPT ![r] = Answer(r, 201)]
  /\ UNCHANGED <<posts, today>>
  /\ UNCHANGED outsideLimits

NextLimits ==
  \E r \in Requests :
    \/ SelectLimits(r)
    \/ InsertLimits(r)
    \/ ReselectLimits(r)
    \/ ResetLimits(r)
    \/ RefreshLimits(r)
    \/ InsertPost(r)
    \/ UpdateLimits(r)

SpecLimits == InitLimits /\ [][NextLimits]_vars

(***************************************************************************)
(* The attempts of one user to post over the days: one request at a time,  *)
(* and midnight falls between two of them.                                 *)
(***************************************************************************)
\* the days after the first that are followed
MaxDays == 30

\* the nights that pass between two attempts
DaySteps == {1, 6, 29}

\* the request that carries the attempts
Attempt == "r1"

\* the row is as at the start of InitLimits and the first attempt has arrived
InitDays ==
  /\ today = 30
  /\ \/ row = NoRow /\ posts = 0
     \/ \E c \in LimitCounters, age \in ResetAges :
          /\ row = Row(c, today - age)
          /\ posts = IF age = 0 THEN c[1] ELSE 0
  /\ \E b \in BOOLEAN :
       req = [r \in Requests |->
                IF r = Attempt
                  THEN [pc |-> "checkPostLimits", complete |-> b,
                        userLimits |-> NoRow, status |-> 0]
                  ELSE NoRequest]
  /\ OutsideLimitsIdle

\* the user has the answer and sends POST /api/posts again
Again(complete) ==
  /\ req[Attempt].pc = "done"
  /\ req' = [req EXCEPT ![Attempt] =
               [pc |-> "checkPostLimits", complete |-> complete,
                userLimits |-> NoRow, status |-> 0]]
  /\ UNCHANGED <<row, posts, today>>
  /\ UNCHANGED outsideLimits

\* d nights pass after the answer: new Date() gives a later day
NextDay(d) ==
  /\ req[Attempt].pc = "done"
  /\ today + d <= 30 + MaxDays
  /\ today' = today + d
  /\ posts' = 0
  /\ req' = [req EXCEPT ![Attempt] =
               [pc |-> "checkPostLimits", complete |-> TRUE,
                userLimits |-> NoRow, status |-> 0]]
  /\ UNCHANGED row
  /\ UNCHANGED outsideLimits

NextDays ==
  \/ SelectLimits(Attempt)
  \/ InsertLimits(Attempt)
  \/ ReselectLimits(Attempt)
  \/ ResetLimits(Attempt)
  \/ RefreshLimits(Attempt)
  \/ InsertPost(Attempt)
  \/ UpdateLimits(Attempt)
  \/ \E complete \in BOOLEAN : Again(complete)
  \/ \E d \in DaySteps : NextDay(d)

SpecDays == InitDays /\ [][NextDays]_vars

(***************************************************************************)
(* Sessions: the logins of one user and the requests of that user to the   *)
(* routes behind authenticateToken.  The clock counts seconds; every       *)
(* awaited query is one step.                                              *)
(***************************************************************************)
\* expiresIn: '7d' of the token and Date.now() + 7 * 24 * 60 * 60 * 1000 of
\* the row, in seconds
SESSION_SECONDS == 7 * 24 * 60 * 60

\* the clock is followed for this many seconds after the start and after a
\* session life
MaxSeconds == 1

\* the logins that are followed
MaxLogins == 2

\* users.id of the user
UserId == 1

\* POST /api/auth/logout and a route that only reads, GET /api/auth/me
GuardedRoutes == {"logout", "me"}

\* jwt.sign({ userId }, JWT_SECRET, { expiresIn: '7d' }) at second t: the
\* payload holds userId, iat and exp, and the signature is a function of the
\* payload, so one user and one second give one token
sign(userId, t) == [userId |-> userId, iat |-> t, exp |-> t + SESSION_SECONDS]

\* jwt.verify(token, JWT_SECRET) throws once the clock has reached exp
verifyThrows(token, t) == t >= token.exp

\* the row of the INSERT INTO user_sessions at second t
Session(token, t) ==
  [user_id |-> token.userId, session_token |-> token,
   expires_at |-> t + SESSION_SECONDS]

\* SELECT * FROM user_sessions WHERE user_id = ? AND session_token = ? AND
\* expires_at > NOW()
sessionCheck(token) ==
  { s \in user_sessions : /\ s.user_id = token.userId
                          /\ s.session_token = token
                          /\ s.expires_at > now }

\* the user is active or not, and has logged in at second 0 or not at all
InitAuth ==
  /\ now = 0
  /\ is_active \in BOOLEAN
  /\ user_sessions \in { {}, {Session(sign(UserId, 0), 0)} }
  /\ issued = user_sessions
  /\ revoked = {}
  /\ guarded = [r \in Requests |-> NoGuarded]
  /\ OutsideAuthIdle

\* POST /api/auth/login with the password of the user: session_token is a
\* unique key, a second row with the token is refused and the catch
\* answers 500
Login ==
  /\ is_active
  /\ Cardinality(issued) < MaxLogins
  /\ LET sessionToken == sign(UserId, now)
         refused == \E s \in user_sessions : s.session_token = sessionToken
         rows == IF refused THEN {} ELSE {Session(sessionToken, now)}
     IN  /\ user_sessions' = user_sessions \cup rows
         /\ issued' = issued \cup rows
  /\ UNCHANGED <<now, is_active, guarded, revoked>>
  /\ UNCHANGED outsideAuth

\* a request with a token the user was given arrives: authenticateToken up
\* to its first query
Arrive(r, route, token) ==
  /\ guarded[r].pc = "idle"
  /\ guarded' = [guarded EXCEPT ![r] =
       [pc |-> IF verifyThrows(token, now) THEN "done" ELSE "sessionCheck",
        route |-> route, token |-> token,
        status |-> IF verifyThrows(token, now) THEN 403 ELSE 0,
        late |-> token \in revoked, accepted |-> FALSE, rowAtNext |-> FALSE]]
  /\ UNCHANGED <<user_sessions, now, is_active, revoked, issued>>
  /\ UNCHANGED outsideAuth

\* the query of user_sessions has answered
SessionChecked(r) ==
  /\ guarded[r].pc = "sessionCheck"
  /\ guarded' = [guarded EXCEPT ![r] =
       IF sessionCheck(guarded[r].token) = {}
         THEN [@ EXCEPT !.pc = "done", !.status = 401]
         ELSE [@ EXCEPT !.pc = "user"]]
  /\ UNCHANGED <<user_sessions, now, is_active, revoked, issued>>
  /\ UNCHANGED outsideAuth

\* the query of users has answered: 401, or req.user = user[0]; next()
UserChecked(r) ==
  /\ guarded[r].pc = "user"
  /\ guarded' = [guarded EXCEPT ![r] =
       IF ~is_active
         THEN [@ EXCEPT !.pc = "done", !.status = 401]
         ELSE [@ EXCEPT !.pc = "handler", !.accepted = TRUE,
                        !.rowAtNext = (sessionCheck(guarded[r].token) # {})]]
  /\ UNCHANGED <<user_sessions, now, is_active, revoked, issued>>
  /\ UNCHANGED outsideAuth

\* the route handler: DELETE FROM user_sessions WHERE session_token = ? for
\* logout, a read for the other route; then 200
Handle(r) ==
  /\ guarded[r].pc = "handler"
  /\ guarded' = [guarded EXCEPT ![r].pc = "done", ![r].status = 200]
  /\ IF guarded[r].route = "logout"
       THEN /\ user_sessions' =
                 { s \in user_sessions : s.session_token # guarded[r].token }
            /\ revoked' = revoked \cup {guarded[r].token}
       ELSE UNCHANGED <<user_sessions, revoked>>
  /\ UNCHANGED <<now, is_active, issued>>
  /\ UNCHANGED outsideAuth

\* a second passes, or a session life
Advance(d) ==
  /\ (now + d) % SESSION_SECONDS <= MaxSeconds
  /\ now + d <= SESSION_SECONDS + MaxSeconds
  /\ now' = now + d
  /\ UNCHANGED <<user_sessions, is_active, guarded, revoked, issued>>
  /\ UNCHANGED outsideAuth

NextAuth ==
  \/ Login
  \/ \E r \in Requests, route \in GuardedRoutes, s \in issued :
       Arrive(r, route, s.session_token)
  \/ \E r \in Requests : SessionChecked(r)
  \/ \E r \in Requests : UserChecked(r)
  \/ \E r \in Requests : Handle(r)
  \/ \E d \in {1, SESSION_SECONDS} : Advance(d)

SpecAuth == InitAuth /\ [][NextAuth]_vars

(***************************************************************************)
(* PUT and DELETE /api/posts/:id: the requests of two authenticated users; *)
(* every awaited query is one step.  Of the fields of a post, subject      *)
(* stands for the seven text fields, is_active is kept as it is.           *)
(***************************************************************************)
\* users.id of the two users
Users == {1, 2}

PostRow(owner, subject, active) ==
  [present |-> TRUE, user_id |-> owner, subject |-> subject,
   is_active |-> active]

\* req.body: the fields that are not undefined, and their values
Bodies ==
  { NoBody,
    [keys |-> {"subject"}, subject |-> "physics", is_active |-> FALSE],
    [keys |-> {"is_active"}, subject |-> "", is_active |-> FALSE],
    [keys |-> {"subject", "is_active"}, subject |-> "physics", is_active |-> TRUE] }

\* the variant of ownPosts: the row is looked up by id alone
anyPosts(id, user) == {p \in {id} : postTable[p].present}

\* SELECT * FROM posts WHERE id = ? AND user_id = ?
ownPosts(id, user) ==
  {p \in {id} : postTable[p].present /\ postTable[p].user_id = user}

\* post 1 belongs to user 1; post 2 belongs to user 2, deleted or not, or
\* does not exist
InitPosts ==
  /\ postTable \in
       { [p \in PostIds |-> IF p = 1 THEN PostRow(1, "math", TRUE) ELSE second] :
           second \in {NoPost, PostRow(2, "math", TRUE), PostRow(2, "math", FALSE)} }
  /\ edits = [r \in Requests |-> NoEdit]
  /\ writers = [p \in PostIds |-> {}]
  /\ OutsidePostsIdle

\* a request of an authenticated user arrives: the handler up to its query
ArriveEdit(r, method, user, id, body) ==
  /\ edits[r].pc = "idle"
  /\ edits' = [edits EXCEPT ![r] =
       [pc |-> "select", method |-> method, user |-> user, id |-> id,
        body |-> IF method = "PUT" THEN body ELSE NoBody, status |-> 0]]
  /\ UNCHANGED <<postTable, writers>>
  /\ UNCHANGED outsidePosts

\* the ownership query has answered: 404, 400 for a PUT without fields, or
\* the handler goes on to its UPDATE
SelectOwn(r) ==
  /\ edits[r].pc = "select"
  /\ edits' = [edits EXCEPT ![r] =
       IF ownPosts(edits[r].id, edits[r].user) = {}
         THEN [@ EXCEPT !.pc = "done", !.status = 404]
       ELSE IF edits[r].method = "PUT" /\ edits[r].body.keys = {}
         THEN [@ EXCEPT !.pc = "done", !.status = 400]
       ELSE [@ EXCEPT !.pc = "update"]]
  /\ UNCHANGED <<postTable, writers>>
  /\ UNCHANGED outsidePosts

\* UPDATE posts SET <updateData> WHERE id = ? of PUT, UPDATE posts SET
\* is_active = FALSE WHERE id = ? of DELETE; then 200
UpdatePost(r) ==
  /\ edits[r].pc = "update"
  /\ LET id == edits[r].id
         body == edits[r].body
     IN  /\ postTable' = [postTable EXCEPT ![id] =
               IF edits[r].method = "DELETE"
                 THEN [@ EXCEPT !.is_active = FALSE]
                 ELSE [@ EXCEPT
                         !.subject = IF "subject" \in body.keys
                                       THEN body.subject ELSE @,
                         !.is_active = IF "is_active" \in body.keys
                                         THEN body.is_active ELSE @]]
         /\ writers' = [writers EXCEPT ![id] = @ \cup {edits[r].user}]
  /\ edits' = [edits EXCEPT ![r].pc = "done", ![r].status = 200]
  /\ UNCHANGED outsidePosts

NextPosts ==
  \/ \E r \in Requests, method \in {"PUT", "DELETE"}, user \in Users,
        id \in PostIds, body \in Bodies :
       ArriveEdit(r, method, user, id, body)
  \/ \E r \in Requests : SelectOwn(r)
  \/ \E r \in Requests : UpdatePost(r)

SpecPosts == InitPosts /\ [][NextPosts]_vars

(***************************************************************************)
(* POST /api/conversations and GET and POST /api/conversations/:id/        *)
(* messages: the requests of authenticated users; every awaited query is   *)
(* one step.                                                               *)
(***************************************************************************)
\* users.id of the users
ChatUsers == {1, 2, 3}

\* the values of :id
ConversationIds == {1, 2}

\* participant_id of the body: a number, the string '1', or not sent
ParticipantIds ==
  { [type |-> "number", value |-> u] : u \in ChatUsers }
    \cup { [type |-> "string", value |-> 1], NoParticipant }

Conversation(a, b) == [participant1_id |-> a, participant2_id |-> b]

Message(conversation_id, sender_id, is_read) ==
  [conversation_id |-> conversation_id, sender_id |-> sender_id,
   is_read |-> is_read]

\* participant_id === req.user.id
StrictEquals(participant_id, user) ==
  participant_id.type = "number" /\ participant_id.value = user

Math_min(a, b) == IF a <= b THEN a ELSE b

Math_max(a, b) == IF a >= b THEN a ELSE b

\* SELECT * FROM conversations WHERE (participant1_id = ? AND
\* participant2_id = ?) OR (participant1_id = ? AND participant2_id = ?):
\* the ids of the rows
existingConversation(user, other) ==
  { c \in DOMAIN conversations :
      \/ /\ conversations[c].participant1_id = user
         /\ conversations[c].participant2_id = other
      \/ /\ conversations[c].participant1_id = other
         /\ conversations[c].participant2_id = user }

\* existingConversation[0].id
First(ids) == CHOOSE c \in ids : \A d \in ids : c <= d

\* the variant of conversation: the row is looked up by id alone
conversationById(id, user) == {c \in DOMAIN conversations : c = id}

\* SELECT * FROM conversations WHERE id = ? AND (participant1_id = ? OR
\* participant2_id = ?)
conversation(id, user) ==
  { c \in DOMAIN conversations :
      /\ c = id
      /\ \/ conversations[c].participant1_id = user
         \/ conversations[c].participant2_id = user }

\* the ids of the messages of a conversation
MessagesOf(id) == {m \in DOMAIN messages : messages[m].conversation_id = id}

\* no conversation, or the one of users 1 and 2 with no message, an unread
\* message of user 1, or that and an unread message of user 2
InitChat ==
  /\ \/ conversations = <<>> /\ messages = <<>>
     \/ /\ conversations = <<Conversation(1, 2)>>
        /\ messages \in { <<>>, <<Message(1, 1, FALSE)>>,
                          <<Message(1, 1, FALSE), Message(1, 2, FALSE)>> }
  /\ chat = [r \in Requests |-> NoChat]
  /\ OutsideChatIdle

\* POST /api/conversations arrives: the handler up to its query
ArriveStart(r, user, participant_id) ==
  /\ chat[r].pc = "idle"
  /\ LET refused == \/ participant_id.type = "undefined"
                    \/ StrictEquals(participant_id, user)
     IN  chat' = [chat EXCEPT ![r] =
           [NoChat EXCEPT !.pc = IF refused THEN "done" ELSE "existing",
                          !.route = "start", !.user = user,
                          !.participant_id = participant_id,
                          !.status = IF refused THEN 400 ELSE 0,
                          !.existed = existingConversation(user,
                                                           participant_id.value)]]
  /\ UNCHANGED <<conversations, messages>>
  /\ UNCHANGED outsideChat

\* the query for an existing conversation has answered
ExistingChecked(r) ==
  /\ chat[r].pc = "existing"
  /\ LET existing == existingConversation(chat[r].user,
                                          chat[r].participant_id.value)
     IN  chat' = [chat EXCEPT ![r] =
           IF existing # {}
             THEN [@ EXCEPT !.pc = "done", !.status = 200,
                            !.conversation_id = First(existing)]
             ELSE [@ EXCEPT !.pc = "insert"]]
  /\ UNCHANGED <<conversations, messages>>
  /\ UNCHANGED outsideChat

\* INSERT INTO conversations (participant1_id, participant2_id, post_id);
\* then 201 with result.insertId
InsertConversation(r) ==
  /\ chat[r].pc = "insert"
  /\ conversations' =
       Append(conversations,
              Conversation(Math_min(chat[r].user, chat[r].participant_id.value),
                           Math_max(chat[r].user, chat[r].participant_id.value)))
  /\ chat' = [chat EXCEPT ![r].pc = "done", ![r].status = 201,
                          ![r].conversation_id = Len(conversations) + 1]
  /\ UNCHANGED messages
  /\ UNCHANGED outsideChat

\* GET or POST /api/conversations/:id/messages arrives, the POST with a
\* content: the handler up to its query
ArriveMessages(r, route, user, id) ==
  /\ chat[r].pc = "idle"
  /\ chat' = [chat EXCEPT ![r] =
       [NoChat EXCEPT !.pc = "participant", !.route = route, !.user = user,
                      !.id = id]]
  /\ UNCHANGED <<conversations, messages>>
  /\ UNCHANGED outsideChat

\* the participant query has answered: 404, or the handler goes on
ParticipantChecked(r) ==
  /\ chat[r].pc = "participant"
  /\ chat' = [chat EXCEPT ![r] =
       IF conversation(chat[r].id, chat[r].user) = {}
         THEN [@ EXCEPT !.pc = "done", !.status = 404]
       ELSE IF chat[r].route = "get"
         THEN [@ EXCEPT !.pc = "messages"]
       ELSE [@ EXCEPT !.pc = "send"]]
  /\ UNCHANGED <<conversations, messages>>
  /\ UNCHANGED outsideChat

\* SELECT m.* ... WHERE m.conversation_id = ? has answered
SelectMessages(r) ==
  /\ chat[r].pc = "messages"
  /\ chat' = [chat EXCEPT ![r].pc = "mark", ![r].seen = MessagesOf(chat[r].id)]
  /\ UNCHANGED <<conversations, messages>>
  /\ UNCHANGED outsideChat

\* UPDATE messages SET is_read = TRUE WHERE conversation_id = ? AND
\* sender_id != ?; then 200 with the messages
MarkRead(r) ==
  /\ chat[r].pc = "mark"
  /\ LET rows == { m \in MessagesOf(chat[r].id) :
                     messages[m].sender_id # chat[r].user }
     IN  /\ messages' = [m \in DOMAIN messages |->
                           IF m \in rows THEN [messages[m] EXCEPT !.is_read = TRUE]
                           ELSE messages[m]]
         /\ chat' = [chat EXCEPT ![r].pc = "done", ![r].status = 200,
                                 ![r].marked = rows]
  /\ UNCHANGED conversations
  /\ UNCHANGED outsideChat

\* INSERT INTO messages (conversation_id, sender_id, ...); then the created
\* message is read back and sent with 201
SendMessage(r) ==
  /\ chat[r].pc = "send"
  /\ messages' = Append(messages, Message(chat[r].id, chat[r].user, FALSE))
  /\ chat' = [chat EXCEPT ![r].pc = "done", ![r].status = 201]
  /\ UNCHANGED conversations
  /\ UNCHANGED outsideChat

NextChat ==
  \/ \E r \in Requests, user \in ChatUsers, participant_id \in ParticipantIds :
       ArriveStart(r, user, participant_id)
  \/ \E r \in Requests, route \in {"get", "post"}, user \in ChatUsers,
        id \in ConversationIds :
       ArriveMessages(r, route, user, id)
  \/ \E r \in Requests : ExistingChecked(r)
  \/ \E r \in Requests : InsertConversation(r)
  \/ \E r \in Requests : ParticipantChecked(r)
  \/ \E r \in Requests : SelectMessages(r)
  \/ \E r \in Requests : MarkRead(r)
  \/ \E r \in Requests : SendMessage(r)

SpecChat == InitChat /\ [][NextChat]_vars

(***************************************************************************)
(* The location field of the post form: LocationInput inside               *)
(* PostFormModal.  The user types, the debounce timer fires, validation    *)
(* requests answer, the user submits.                                      *)
(***************************************************************************)
\* the requests to /api/validate-location that are followed
MaxFetches == 3

\* what the user can have in the field
FieldTexts == {<<>>, <<" ">>, <<"a">>, <<"a", "b">>}

\* data.location of the answer to a request for this address
LocationFor(address) == [present |-> TRUE, address |-> address]

RECURSIVE trimStart(_)
trimStart(s) ==
  IF s # <<>> /\ Head(s) \in Whitespace THEN trimStart(Tail(s)) ELSE s

RECURSIVE trimEnd(_)
trimEnd(s) ==
  IF s # <<>> /\ s[Len(s)] \in Whitespace
    THEN trimEnd(SubSeq(s, 1, Len(s) - 1)) ELSE s

\* address.trim()
trim(s) == trimEnd(trimStart(s))

\* the form has just been opened: the effect has called the debounced
\* validation with the empty value
InitForm ==
  /\ formData = [location |-> <<>>, locationData |-> NoLocationData]
  /\ isLocationValid = FALSE
  /\ validationState = "idle"
  /\ locationData = NoLocationData
  /\ pending = [waiting |-> TRUE, address |-> <<>>]
  /\ fetches = {}
  /\ started = 0
  /\ shown = NoShown
  /\ reported = NoReport
  /\ submitted = NoPayload
  /\ OutsideFormIdle

\* handleLocationValidationChange(isValid, locationData)
handleLocationValidationChange(isValid, data) ==
  /\ isLocationValid' = isValid
  /\ formData' = IF isValid /\ data.present
                   THEN [formData EXCEPT !.locationData = data]
                   ELSE formData

\* the user changes the text: handleInputChange calls onChange with the new
\* text and the locationData of the component, handleLocationChange stores
\* both, and the effect on value cancels the timer and starts it again
Type(newValue) ==
  /\ newValue # formData.location
  /\ formData' = [location |-> newValue, locationData |-> locationData]
  /\ reported' = [text |-> newValue, data |-> locationData]
  /\ pending' = [waiting |-> TRUE, address |-> newValue]
  /\ UNCHANGED <<isLocationValid, validationState, locationData, fetches,
                 started, shown, submitted>>
  /\ UNCHANGED outsideForm

\* the 800 ms of the debounce are over: the validation runs up to its fetch
DebounceFires ==
  /\ pending.waiting
  /\ pending' = NoPending
  /\ IF trim(pending.address) = <<>>
       THEN /\ validationState' = "idle"
            /\ locationData' = NoLocationData
            /\ handleLocationValidationChange(FALSE, NoLocationData)
            /\ UNCHANGED <<fetches, started>>
       ELSE /\ started < MaxFetches
            /\ validationState' = "validating"
            /\ fetches' = fetches \cup {[address |-> pending.address,
                                         seq |-> started + 1]}
            /\ started' = started + 1
            /\ UNCHANGED <<formData, isLocationValid, locationData>>
  /\ UNCHANGED <<shown, reported, submitted>>
  /\ UNCHANGED outsideForm

\* a validation request answers: with valid and a location, with not valid,
\* or it fails
FetchAnswers(f, answer) ==
  /\ f \in fetches
  /\ fetches' = fetches \ {f}
  /\ shown' = [address |-> f.address, seq |-> f.seq,
               latest |-> IF f.seq > shown.latest THEN f.seq ELSE shown.latest]
  /\ IF answer = "valid"
       THEN /\ validationState' = "valid"
            /\ locationData' = LocationFor(f.address)
            /\ handleLocationValidationChange(TRUE, LocationFor(f.address))
            /\ reported' = [text |-> formData.location,
                            data |-> LocationFor(f.address)]
       ELSE /\ validationState' = "invalid"
            /\ locationData' = NoLocationData
            /\ handleLocationValidationChange(FALSE, NoLocationData)
            /\ UNCHANGED reported
  /\ UNCHANGED <<pending, started, submitted>>
  /\ UNCHANGED outsideForm

\* handleSubmit up to axios.post: the other fields are filled in, the
\* button does not look at isLocationValid
Submit ==
  /\ ~submitted.sent
  /\ submitted' = [sent |-> TRUE, answered |-> FALSE,
                   location |-> formData.location,
                   locationData |-> formData.locationData]
  /\ UNCHANGED <<formData, isLocationValid, validationState, locationData,
                 pending, fetches, started, shown, reported>>
  /\ UNCHANGED outsideForm

\* axios.post has ended: after a success the form is reset, and the effect
\* on value starts the timer when the text was not empty; after a failure a
\* message is shown
SubmitAnswers(success) ==
  /\ submitted.sent
  /\ ~submitted.answered
  /\ submitted' = [submitted EXCEPT !.answered = TRUE]
  /\ IF success
       THEN /\ formData' = [location |-> <<>>, locationData |-> NoLocationData]
            /\ isLocationValid' = FALSE
            /\ pending' = IF formData.location # <<>>
                            THEN [waiting |-> TRUE, address |-> <<>>]
                            ELSE pending
       ELSE UNCHANGED <<formData, isLocationValid, pending>>
  /\ UNCHANGED <<validationState, locationData, fetches, started, shown,
                 reported>>
  /\ UNCHANGED outsideForm

NextForm ==
  \/ \E newValue \in FieldTexts : Type(newValue)
  \/ DebounceFires
  \/ \E f \in fetches, answer \in {"valid", "invalid", "error"} :
       FetchAnswers(f, answer)
  \/ Submit
  \/ \E success \in BOOLEAN : SubmitAnswers(success)

SpecForm == InitForm /\ [][NextForm]_vars

(***************************************************************************)
(* PostDetail.geocodeLocation, one call, and its GET /api/geocode request. *)
(* Time is counted in whole seconds from the call.  A setTimeout callback  *)
(* runs when its delay has passed or later; a response comes at any time.  *)
(* Of enhancedGeocode the order of the providers and the abort timers are  *)
(* kept: a provider function ends with the outcome chosen at the start, or *)
(* by its timer.                                                           *)
(***************************************************************************)
\* the last second that is counted
MaxClock == 11

\* setTimeout(() => { controller.abort(); }, 5000) of geocodeLocation
ABORT_SECONDS == 5

\* setTimeout(() => controller.abort(), 5000) of tryNominatim and tryPhoton
PROVIDER_SECONDS == 5

\* a parsed number of whole degrees, in hundred-thousandths of a degree
Degrees(x) == IF x.t = "number" THEN Num(x.v * 100000) ELSE x

\* setCoordinates([37.7749, -122.4194])
SanFrancisco ==
  [set |-> TRUE, lat |-> Num(3777490), lon |-> Num(0 - 12241940),
   source |-> "default"]

\* setCoordinates([parseFloat(data[0].lat), parseFloat(data[0].lon)])
FromEntry(entry) ==
  [set |-> TRUE, lat |-> Degrees(parseFloat(entry.lat)),
   lon |-> Degrees(parseFloat(entry.lon)), source |-> entry.source]

\* what a provider function returns
Found(source, lat, lon) ==
  [kind |-> "result",
   value |-> [lat |-> lat, lon |-> lon, display_name |-> <<"A">>,
              confidence |-> "medium", source |-> source, country |-> <<>>,
              city |-> <<>>, state |-> <<>>]]

NotFound == [kind |-> "null", value |-> NoResult]

\* how tryNominatim ends when its timer does not end it: a candidate, a
\* candidate whose lat and lon are no numbers, no candidate, an exception
NominatimEndings ==
  { Found("nominatim", Num(49), Num(0 - 123)), Found("nominatim", NaN, NaN),
    NotFound, Thrown }

\* how tryPhoton ends when its timer does not end it: a feature, a feature
\* with an empty coordinates array, no feature, an exception
PhotonEndings ==
  { Found("photon", Num(45), Num(0 - 75)), Found("photon", Undefined, Undefined),
    NotFound, Thrown }

\* the page shows a post that is not online; the effect has not run yet
InitDetail ==
  /\ coordinates = NoCoordinates
  /\ mapLoading = FALSE
  /\ geocoding = NoGeocoding
  /\ elapsed = 0
  /\ backend \in { [NoBackend EXCEPT !.Nominatim = n, !.Photon = f] :
                     n \in NominatimEndings, f \in PhotonEndings }
  /\ OutsideDetailIdle

\* geocodeLocation up to await fetch(...): setMapLoading(true), the abort
\* timer is set, the request is sent
geocodeLocation ==
  /\ geocoding.pc = "idle"
  /\ mapLoading' = TRUE
  /\ geocoding' = [geocoding EXCEPT !.pc = "fetch", !.timeoutId = "pending"]
  /\ backend' = [backend EXCEPT !.pc = "sent"]
  /\ UNCHANGED <<coordinates, elapsed>>
  /\ UNCHANGED outsideDetail

\* a second passes while the abort timer of geocodeLocation is pending
Tick ==
  /\ geocoding.timeoutId = "pending"
  /\ elapsed < MaxClock
  /\ elapsed' = elapsed + 1
  /\ UNCHANGED <<coordinates, mapLoading, geocoding, backend>>
  /\ UNCHANGED outsideDetail

\* the request reaches the route; enhancedGeocode calls tryNominatim, which
\* sets its timer
RequestArrives ==
  /\ backend.pc = "sent"
  /\ backend' = [backend EXCEPT !.pc = "Nominatim",
                                !.due = elapsed + PROVIDER_SECONDS]
  /\ UNCHANGED <<coordinates, mapLoading, geocoding, elapsed>>
  /\ UNCHANGED outsideDetail

\* the route answers: res.json(...) or res.status(500).json(...)
Replied(o) == [backend EXCEPT !.pc = "answered", !.reply = GeocodeReply(o)]

\* enhancedGeocode after tryNominatim has ended as o: return result, or
\* the next iteration calls tryPhoton, which sets its timer
AfterNominatim(o) ==
  IF o.kind = "result" THEN Replied(o)
  ELSE [backend EXCEPT !.pc = "Photon", !.due = elapsed + PROVIDER_SECONDS]

\* enhancedGeocode after tryPhoton has ended as o: return result, or
\* tryMapBox returns null and so does enhancedGeocode
AfterPhoton(o) == IF o.kind = "result" THEN Replied(o) ELSE Replied(NotFound)

\* tryNominatim ends with its ending
NominatimEnds ==
  /\ backend.pc = "Nominatim"
  /\ backend' = AfterNominatim(backend.Nominatim)
  /\ UNCHANGED <<coordinates, mapLoading, geocoding, elapsed>>
  /\ UNCHANGED outsideDetail

\* the timer of tryNominatim aborts its fetch: tryNominatim throws
NominatimTimesOut ==
  /\ backend.pc = "Nominatim"
  /\ elapsed >= backend.due
  /\ backend' = [AfterNominatim(Thrown) EXCEPT !.timedOut = TRUE]
  /\ UNCHANGED <<coordinates, mapLoading, geocoding, elapsed>>
  /\ UNCHANGED outsideDetail

\* tryPhoton ends with its ending
PhotonEnds ==
  /\ backend.pc = "Photon"
  /\ backend' = AfterPhoton(backend.Photon)
  /\ UNCHANGED <<coordinates, mapLoading, geocoding, elapsed>>
  /\ UNCHANGED outsideDetail

\* the timer of tryPhoton aborts its fetch: tryPhoton throws
PhotonTimesOut ==
  /\ backend.pc = "Photon"
  /\ elapsed >= backend.due
  /\ backend' = AfterPhoton(Thrown)
  /\ UNCHANGED <<coordinates, mapLoading, geocoding, elapsed>>
  /\ UNCHANGED outsideDetail

\* catch: setCoordinates(default); finally: setMapLoading(false)
Caught(timeoutId) ==
  /\ coordinates' = SanFrancisco
  /\ mapLoading' = FALSE
  /\ geocoding' = [geocoding EXCEPT !.pc = "done", !.timeoutId = timeoutId]

\* await fetch(...) resolves with the response of the route:
\* clearTimeout(timeoutId); a response that is not ok is thrown
ResponseArrives ==
  /\ geocoding.pc = "fetch"
  /\ backend.pc = "answered"
  /\ IF backend.reply.status # 200
       THEN Caught("cleared")
       ELSE /\ geocoding' = [geocoding EXCEPT !.pc = "json",
                                              !.timeoutId = "cleared"]
            /\ UNCHANGED <<coordinates, mapLoading>>
  /\ UNCHANGED <<elapsed, backend>>
  /\ UNCHANGED outsideDetail

\* await fetch(...) rejects: the backend cannot be reached
RequestFails ==
  /\ geocoding.pc = "fetch"
  /\ Caught("pending")
  /\ UNCHANGED <<elapsed, backend>>
  /\ UNCHANGED outsideDetail

\* the abort timer of geocodeLocation: controller.abort(), the fetch rejects
AbortFires ==
  /\ geocoding.pc = "fetch"
  /\ geocoding.timeoutId = "pending"
  /\ elapsed >= ABORT_SECONDS
  /\ Caught("fired")
  /\ UNCHANGED <<elapsed, backend>>
  /\ UNCHANGED outsideDetail

\* the body of the response stops coming
BodyStalls ==
  /\ geocoding.pc = "json"
  /\ geocoding.data = "none"
  /\ geocoding' = [geocoding EXCEPT !.data = "stalled"]
  /\ UNCHANGED <<coordinates, mapLoading, elapsed, backend>>
  /\ UNCHANGED outsideDetail

\* await response.json() resolves: the first entry, or the default
BodyArrives ==
  /\ geocoding.pc = "json"
  /\ geocoding.data = "none"
  /\ coordinates' = IF Len(backend.reply.entries) > 0
                      THEN FromEntry(backend.reply.entries[1])
                      ELSE SanFrancisco
  /\ mapLoading' = FALSE
  /\ geocoding' = [geocoding EXCEPT !.pc = "done", !.data = "read"]
  /\ UNCHANGED <<elapsed, backend>>
  /\ UNCHANGED outsideDetail

\* await response.json() rejects: the connection breaks within the body
BodyFails ==
  /\ geocoding.pc = "json"
  /\ geocoding.data = "none"
  /\ Caught("cleared")
  /\ UNCHANGED <<elapsed, backend>>
  /\ UNCHANGED outsideDetail

NextDetail ==
  \/ geocodeLocation
  \/ Tick
  \/ RequestArrives
  \/ NominatimEnds
  \/ NominatimTimesOut
  \/ PhotonEnds
  \/ PhotonTimesOut
  \/ ResponseArrives
  \/ RequestFails
  \/ AbortFires
  \/ BodyStalls
  \/ BodyArrives
  \/ BodyFails

SpecDetail == InitDetail /\ [][NextDetail]_vars

(***************************************************************************)
(* Properties of the cascade, checked under Spec.                          *)
(***************************************************************************)
\* the attempt of provider p, if it has ended
EndedAs(p, kinds) ==
  \E k \in DOMAIN attempts : attempts[k].provider = p /\ attempts[k].kind \in kinds

\* C1: once tryNominatim has returned a result, tryPhoton and tryMapBox have
\* not been called and are not called later (the call is over), and what
\* enhancedGeocode returns is that result, with source 'nominatim', unchanged
C1_FirstSuccessWins ==
  \A k \in DOMAIN attempts :
    (attempts[k].provider = "Nominatim" /\ attempts[k].kind = "result") =>
      /\ \A c \in DOMAIN calls : calls[c].provider = "Nominatim"
      /\ pc = "done"
      /\ outcome = [kind |-> "result", value |-> attempts[k].value]
      /\ outcome.value.source = "nominatim"

C1_Witness ==
  /\ pc = "done"
  /\ Len(attempts) = 1
  /\ attempts[1].provider = "Nominatim"
  /\ attempts[1].kind = "result"
  /\ attempts[1].candidates = 2

\* C2: whenever the attempt of a provider other than the last ended with
\* null or with an exception, the next provider of the list is the next
\* thing called (it is called already, or the call is at the loop head of
\* that provider with its call enabled), and it is called with the text
\* enhancedGeocode was given
C2_FallsThroughWithSameText ==
  \A k \in DOMAIN attempts :
    (attempts[k].kind \in {"null", "throw"} /\ k < Len(geocoders)) =>
      /\ attempts[k].provider = geocoders[k]
      /\ IF Len(calls) > k
           THEN calls[k + 1] = [provider |-> geocoders[k + 1], q |-> location]
           ELSE /\ pc = "loop"
                /\ i = k
                /\ ENABLED (StartLookup \/ CallMapBox)
                /\ ~ ENABLED ReturnNull

C2_Witness ==
  /\ Len(calls) = 3
  /\ attempts[1].provider = "Nominatim" /\ attempts[1].kind = "null"
  /\ attempts[2].provider = "Photon" /\ attempts[2].kind = "throw"
  /\ calls[2] = [provider |-> "Photon", q |-> location]
  /\ calls[3] = [provider |-> "MapBox", q |-> location]

\* C3: enhancedGeocode never ends with an exception; when it has ended it
\* has returned a result or null, and null exactly when no provider
\* function returned a result
C3_NeverThrows ==
  /\ outcome.kind # "threw"
  /\ pc = "done" =>
       /\ outcome.kind \in {"result", "null"}
       /\ outcome.kind = "null" <=> ~ \E p \in Range(geocoders) : EndedAs(p, {"result"})

\* Nominatim timed out, Photon threw, MapBox returned null
C3_Witness ==
  /\ pc = "done"
  /\ outcome.kind = "null"
  /\ Len(attempts) = 3
  /\ attempts[1].kind = "throw"
  /\ attempts[2].kind = "throw"
  /\ attempts[3].kind = "null"

\* a latitude or longitude that is a number within lo..hi
InRange(x, lo, hi) == x.t = "number" /\ lo <= x.v /\ x.v <= hi

\* C4: every result enhancedGeocode returns has a numeric latitude within
\* -90..90 and a numeric longitude within -180..180
C4_CoordinatesValid ==
  outcome.kind = "result" =>
    /\ InRange(outcome.value.lat, 0 - 90, 90)
    /\ InRange(outcome.value.lon, 0 - 180, 180)

\* C5: a call that has not returned can always take a step, also when the
\* provider has stopped sending: the abort timer of the lookup is pending
C5_EveryLookupBounded == pc \in {"idle", "done"} \/ ENABLED NextCall

\* C6: the providers called so far are the first ones of the list, each
\* once and in order; at most one request is outstanding; a provider is
\* called only when every earlier one has ended with null or an exception
C6_SequentialOnceInOrder ==
  /\ Len(calls) <= Len(geocoders)
  /\ \A c \in DOMAIN calls : calls[c].provider = geocoders[c]
  /\ Cardinality(inflight) <= 1
  /\ Len(calls) - Len(attempts) \in {0, 1}
  /\ inflight # {} =>
       /\ Len(attempts) = Len(calls) - 1
       /\ inflight = {calls[Len(calls)].provider}
  /\ \A c \in DOMAIN calls : \A k \in 1..(c - 1) :
       attempts[k].kind \in {"null", "throw"}

C6_Witness ==
  /\ inflight = {"Photon"}
  /\ pc = "awaitJson"
  /\ attempts[1].kind = "throw"
  /\ timer = "cleared"

(***************************************************************************)
(* The cascade and the helpers together: a behaviour is one call of        *)
(* enhancedGeocode or one call of a helper.                                *)
(***************************************************************************)
InitAll == Init \/ InitPure

NextAll == Next \/ NextPure

SpecAll == InitAll /\ [][NextAll]_vars

(***************************************************************************)
(* The claims' own reading of the scoring rules, written without the       *)
(* operators that model the code.                                          *)
(***************************************************************************)
\* text contains q, letters compared ignoring case
ContainsIgnoringCase(text, q) ==
  \E off \in 0..(Len(text) - Len(q)) :
    \A k \in 1..Len(q) : LowerChar(text[off + k]) = LowerChar(q[k])

\* letter digit letter digit letter digit
SixOfPostal(core) ==
  /\ Len(core) = 6
  /\ \A k \in {1, 3, 5} : IsLetter(core[k])
  /\ \A k \in {2, 4, 6} : IsDigit(core[k])

\* the Canadian postal-code shape with its optional single space
PostalShape(q) ==
  \/ SixOfPostal(q)
  \/ Len(q) = 7 /\ q[4] = " " /\ SixOfPostal(SubSeq(q, 1, 3) \o SubSeq(q, 5, 7))

\* the postal-code pattern: the separator is one whitespace character
PostalPattern(q) ==
  \/ SixOfPostal(q)
  \/ Len(q) = 7 /\ q[4] \in Whitespace
       /\ SixOfPostal(SubSeq(q, 1, 3) \o SubSeq(q, 5, 7))

\* the display_name of a candidate, empty when it has none
DisplayText(c) == IF c.display_name = Absent THEN <<>> ELSE c.display_name

\* 'high' by the rule of the claims
HighByRule(c, q) ==
  \/ ContainsIgnoringCase(DisplayText(c), q)
  \/ PostalPattern(q)
  \/ c.importance > 70

\* an address field that is present and a substring of the query
FieldInQuery(x, q) == x # Absent /\ ContainsIgnoringCase(q, x)

\* 'medium' by the rule of the claims, address object or not
MediumByRule(c, q) ==
  \/ FieldInQuery(c.address.city, q)
  \/ FieldInQuery(c.address.town, q)
  \/ FieldInQuery(c.address.state, q)
  \/ c.importance > 40

\* the country of a candidate is Canada or the United States
InNorthAmerica(c) ==
  /\ c.address.present
  /\ c.address.country # Absent
  /\ toLowerCase(c.address.country) \in {canada, unitedStates}

\* the weight of the place type (the class when there is no type)
PlaceWeight(c) ==
  LET t == IF c.type # "" THEN c.type ELSE c.class
  IN  IF t \in DOMAIN typeScores THEN typeScores[t] ELSE 0

\* the score of the claims, in tenths
RuleScore(c, q) ==
  PlaceWeight(c) + c.importance
    + (IF c.display_name # Absent /\ ContainsIgnoringCase(c.display_name, q)
         THEN 50 ELSE 0)
    + (IF InNorthAmerica(c) THEN 30 ELSE 0)

\* l[idx] has the maximal score of l and is the first to have it
IsFirstMax(l, idx, q) ==
  /\ idx \in DOMAIN l
  /\ \A k \in DOMAIN l :
       /\ RuleScore(l[k], q) <= RuleScore(l[idx], q)
       /\ k < idx => RuleScore(l[k], q) < RuleScore(l[idx], q)

(***************************************************************************)
(* Properties of the confidence label and of the selection.                *)
(***************************************************************************)
\* Nominatim answered with at least one candidate
NominatimAnsweredSome ==
  \E k \in DOMAIN attempts :
    attempts[k].provider = "Nominatim" /\ attempts[k].candidates >= 1

\* C7 as stated: for a query of postal-code shape enhancedGeocode yields
\* confidence 'high' whenever Nominatim returned at least one candidate
C7_HighWheneverAnyCandidate ==
  (pc = "done" /\ PostalShape(location) /\ NominatimAnsweredSome) =>
    (outcome.kind = "result" /\ outcome.value.confidence = "high")

\* C7 amended: calculateNominatimConfidence returns 'high' for every query of
\* postal-code shape, whatever the candidate; and for such a query
\* enhancedGeocode yields confidence 'high' whenever tryNominatim returns a
\* result, which it does for an answer of at least one candidate exactly
\* when every candidate carries a display_name
C7_PostalCodeIsHigh ==
  /\ (pIn.fn = "confidence" /\ pOut.done /\ PostalShape(pIn.location)) =>
       pOut.confidence = "high"
  /\ \A k \in DOMAIN attempts :
       (attempts[k].provider = "Nominatim" /\ PostalShape(location)) =>
         /\ attempts[k].kind = "result" =>
              /\ attempts[k].value.confidence = "high"
              /\ pc = "done"
              /\ outcome.kind = "result"
              /\ outcome.value.confidence = "high"
         /\ attempts[k].candidates >= 1 =>
              /\ attempts[k].kind \in {"result", "throw"}
              /\ attempts[k].kind = "result" <=> ~ attempts[k].unnamed

\* a postal code without the space, answered with a candidate that nothing
\* else would make 'high'
C7_Witness ==
  /\ pc = "done"
  /\ location = sPostalLower
  /\ outcome.kind = "result"
  /\ outcome.value.source = "nominatim"
  /\ outcome.value.display_name = <<"x">>
  /\ outcome.value.confidence = "high"

\* C8: calculateNominatimConfidence returns 'high' if and only if the
\* display_name contains the query ignoring case, or the query matches the
\* postal-code pattern, or the importance is greater than 0.7
C8_HighIff ==
  (pIn.fn = "confidence" /\ pOut.done) =>
    (pOut.confidence = "high" <=> HighByRule(pIn.results[1], pIn.location))

\* 'Vancouver' against 'Vancouver, BC, Canada' with importance 0.8
C8_Witness ==
  /\ pIn.fn = "confidence"
  /\ pOut.done
  /\ pIn.location = sVancouver
  /\ pIn.results[1].display_name = sVancouverBC
  /\ pIn.results[1].importance = 80
  /\ pIn.results[1].type = "city"
  /\ pOut.confidence = "high"

\* C9: a candidate that is not 'high' is 'medium' exactly when its city,
\* town or state is a substring of the query or its importance is greater
\* than 0.4, with or without an address object, and 'low' otherwise
C9_MediumIff ==
  (pIn.fn = "confidence" /\ pOut.done
     /\ ~ HighByRule(pIn.results[1], pIn.location)) =>
    /\ pOut.confidence \in {"medium", "low"}
    /\ pOut.confidence = "medium" <=> MediumByRule(pIn.results[1], pIn.location)

\* C10 as stated: for every non-empty list findBestNominatimResult returns
\* the first candidate of maximal score
C10_FirstMaxOfEveryList ==
  (pIn.fn = "best" /\ pOut.done) =>
    (~ pOut.threw /\ IsFirstMax(pIn.results, pOut.idx, pIn.location))

\* C10 amended: for every non-empty list whose candidates all carry a
\* display_name findBestNominatimResult returns the first candidate of
\* maximal score; on a list with a candidate without display_name it throws
C10_FirstMaxOfWellFormedList ==
  (pIn.fn = "best" /\ pOut.done) =>
    /\ pOut.threw <=> \E k \in DOMAIN pIn.results : pIn.results[k].display_name = Absent
    /\ ~ pOut.threw => IsFirstMax(pIn.results, pOut.idx, pIn.location)

\* two different candidates tie for the maximum and the first is returned
C10_Witness ==
  /\ pIn.fn = "best"
  /\ pOut.done
  /\ ~ pOut.threw
  /\ Len(pIn.results) = 2
  /\ pIn.results[1] # pIn.results[2]
  /\ RuleScore(pIn.results[1], pIn.location) = RuleScore(pIn.results[2], pIn.location)
  /\ RuleScore(pIn.results[1], pIn.location) > 0
  /\ pOut.idx = 1

(***************************************************************************)
(* Properties of the two routes, checked under Spec.                       *)
(***************************************************************************)
\* C12: once the client of the request has gone away, no provider request
\* is outstanding and no provider is called that had not been called when
\* it went away
C12_CancelledWhenClientGone ==
  clientGoneAt >= 0 => (inflight = {} /\ Len(calls) = clientGoneAt)

\* a text of whitespace only (the empty text included)
IsBlank(text) == \A k \in DOMAIN text : text[k] \in Whitespace

\* C13: a call of enhancedGeocode with an empty or whitespace-only text
\* ends with null, whatever the providers answer
C13_BlankIsNotFound ==
  (pc = "done" /\ IsBlank(location)) => outcome.kind = "null"

\* the text is a decimal number, 'NaN' or the text of a JSON string
IsStringOfCoordinate(text, x) ==
  \/ x.t = "number" /\ text = toString(x).text /\ text # <<>>
  \/ x.t = "nan" /\ text = <<"N","a","N">>
  \/ x.t = "string" /\ text = sStringCoordinate

\* C15: GET /api/geocode with a non-empty location answers 200 with an
\* array: of one entry carrying the coordinates as strings, the confidence
\* and the source of the result and type 'geocoded' when enhancedGeocode
\* returned a result, empty when it returned null
C15_GeocodeAnswersArray ==
  (endpoint = "geocode" /\ handler = "responded" /\ location # <<>>) =>
    /\ res.status = 200
    /\ res.body = "array"
    /\ outcome.kind = "null" => res.entries = <<>>
    /\ outcome.kind = "result" =>
         /\ Len(res.entries) = 1
         /\ IsStringOfCoordinate(res.entries[1].lat, outcome.value.lat)
         /\ IsStringOfCoordinate(res.entries[1].lon, outcome.value.lon)
         /\ res.entries[1].confidence = outcome.value.confidence
         /\ res.entries[1].source = outcome.value.source
         /\ res.entries[1].type = "geocoded"

\* C16: GET /api/validate-location with a non-empty location has called
\* enhancedGeocode once when it answers and calls nothing afterwards; it
\* answers 200, with valid: true and the location exactly when
\* enhancedGeocode returned a result, with valid: false and a non-empty
\* list of suggestions exactly when it returned null
C16_ValidateAnswers ==
  (endpoint = "validate" /\ handler = "responded" /\ location # <<>>) =>
    /\ runs = 1
    /\ ~ ENABLED (HandleRequest \/ NextCall \/ Respond)
    /\ Len(calls) <= Len(geocoders)
    /\ res.status = 200
    /\ res.body \in {"valid", "invalid"}
    /\ outcome.kind = "result" <=>
         /\ res.body = "valid"
         /\ Len(res.location) = 1
         /\ res.location[1].address = location
         /\ res.location[1].source = outcome.value.source
         /\ res.location[1].confidence = outcome.value.confidence
         /\ res.suggestions = <<>>
    /\ outcome.kind = "null" <=>
         /\ res.body = "invalid"
         /\ res.location = <<>>
         /\ Len(res.suggestions) >= 5

\* every provider was asked once and none had a result: the answer carries
\* the five suggestions
C16_Witness ==
  /\ endpoint = "validate"
  /\ handler = "responded"
  /\ runs = 1
  /\ Len(calls) = 3
  /\ outcome.kind = "null"
  /\ res.body = "invalid"
  /\ res.suggestions = suggestions

(***************************************************************************)
(* Properties of generateLocationSuggestions, calculatePhotonConfidence    *)
(* and formatPhotonDisplayName, checked under SpecPure.                    *)
(***************************************************************************)
MentionsCanada(q) ==
  ContainsIgnoringCase(q, canada) \/ ContainsIgnoringCase(q, sCanadian)

MentionsUS(q) ==
  ContainsIgnoringCase(q, sUs) \/ ContainsIgnoringCase(q, sAmerica)

\* C14: generateLocationSuggestions returns the five generic hints in
\* their order, preceded by the Canadian hint iff the query contains
\* 'canada' or 'canadian' and by the US hint iff it contains 'us' or
\* 'america', the US hint first; the list has 5 to 7 entries
C14_SuggestionsList ==
  (pOut.done /\ pIn.fn = "suggest") =>
    LET n == Len(pOut.list)
        q == pIn.location
    IN  /\ n \in 5..7
        /\ SubSeq(pOut.list, n - 4, n) = suggestions
        /\ (\E k \in 1..n : pOut.list[k] = canadianHint) <=> MentionsCanada(q)
        /\ (\E k \in 1..n : pOut.list[k] = usHint) <=> MentionsUS(q)
        /\ n = 5 + (IF MentionsCanada(q) THEN 1 ELSE 0)
                 + (IF MentionsUS(q) THEN 1 ELSE 0)
        /\ MentionsUS(q) => pOut.list[1] = usHint
        /\ (MentionsCanada(q) /\ MentionsUS(q)) => pOut.list[2] = canadianHint
        /\ (MentionsCanada(q) /\ ~MentionsUS(q)) => pOut.list[1] = canadianHint

\* both hints apply
C14_Witness ==
  /\ pOut.done
  /\ pIn.fn = "suggest"
  /\ pIn.location = sUSA \o <<",", " ">> \o sCanada
  /\ Len(pOut.list) = 7
  /\ pOut.list[1] = usHint

Present(x) == x # Absent /\ x # <<>>

\* the name matches the query in one direction or the other, or the
\* candidate is a place
PhotonHighByRule(properties, q) ==
  \/ /\ properties.name # Absent
     /\ \/ ContainsIgnoringCase(properties.name, q)
        \/ ContainsIgnoringCase(q, properties.name)
  \/ properties.osm_key = "place"

\* the city, the state or the street contains the query
PhotonMediumByRule(properties, q) ==
  \E field \in {properties.city, properties.state, properties.street} :
    field # Absent /\ ContainsIgnoringCase(field, q)

\* C17: calculatePhotonConfidence returns 'high' iff the name matches the
\* query in either direction or osm_key is 'place', otherwise 'medium' iff
\* city, state or street matches, otherwise 'low'; a candidate without
\* name, city, state and street gets 'low' unless it is a place
C17_PhotonConfidenceByRule ==
  (pOut.done /\ pIn.fn = "photonConfidence") =>
    LET properties == pIn.results[1].properties
        q == pIn.location
    IN  pOut.confidence =
          IF PhotonHighByRule(properties, q) THEN "high"
          ELSE IF PhotonMediumByRule(properties, q) THEN "medium"
          ELSE "low"

RECURSIVE JoinedFromEnd(_)
\* the parts with ', ' between them
JoinedFromEnd(parts) ==
  IF Len(parts) = 0 THEN <<>>
  ELSE IF Len(parts) = 1 THEN parts[1]
  ELSE JoinedFromEnd(SubSeq(parts, 1, Len(parts) - 1))
         \o <<",", " ">> \o parts[Len(parts)]

\* the present fields of the five, in the order of the claim
PresentFields(properties) ==
  SelectSeq(<<properties.name, properties.street, properties.city,
              properties.state, properties.country>>, Present)

\* C18: formatPhotonDisplayName returns the present fields among name,
\* street, city, state, country joined with ', ' in that order, and
\* 'Unknown Location' iff none of them is present
C18_DisplayNameJoined ==
  (pOut.done /\ pIn.fn = "format") =>
    LET fields == PresentFields(pIn.results[1])
    IN  /\ fields # <<>> => pOut.text = JoinedFromEnd(fields)
        /\ pOut.text = UnknownLocation <=> fields = <<>>

\* name and street are absent or empty, the other three are joined
C18_Witness ==
  /\ pOut.done
  /\ pIn.fn = "format"
  /\ pIn.results[1].name = Absent
  /\ pIn.results[1].street = <<>>
  /\ pOut.text = <<"a", ",", " ", "b", "c", ",", " ", "a">>

(***************************************************************************)
(* Properties of calls that run at the same time, checked under SpecPair.  *)
(***************************************************************************)
\* what enhancedGeocode returns when it runs alone and the providers
\* answer with these responses
AloneOutcome(text, responses) ==
  LET n == ProviderOutcome("Nominatim", responses.Nominatim, text)
      f == ProviderOutcome("Photon", responses.Photon, text)
  IN  IF n.kind = "result" THEN [kind |-> "result", value |-> n.value]
      ELSE IF f.kind = "result" THEN [kind |-> "result", value |-> f.value]
      ELSE [kind |-> "null", value |-> NoResult]

\* C11: two calls with the same location text and the same provider
\* responses that have ended have selected the same candidate and returned
\* the same confidence, coordinates and source, whatever the other calls
\* did before or in between
C11_SameInputsSameResult ==
  \A c \in Calls : \A d \in Calls \ {c} :
    (/\ call[c].pc = "done"
     /\ call[d].pc = "done"
     /\ call[c].location = call[d].location
     /\ call[c].responses = call[d].responses) =>
      /\ call[c].outcome.kind = call[d].outcome.kind
      /\ call[c].outcome.value.display_name = call[d].outcome.value.display_name
      /\ call[c].outcome.value.confidence = call[d].outcome.value.confidence
      /\ call[c].outcome.value.lat = call[d].outcome.value.lat
      /\ call[c].outcome.value.lon = call[d].outcome.value.lon
      /\ call[c].outcome.value.source = call[d].outcome.value.source

\* two calls with the same inputs have returned the city candidate of
\* Nominatim, while a call with another text and other responses ran
C11_Witness ==
  /\ overlapped
  /\ call["first"].location = call["second"].location
  /\ call["first"].responses = call["second"].responses
  /\ call["other"].location # call["first"].location
  /\ call["other"].responses # call["first"].responses
  /\ \A c \in Calls : call[c].pc = "done"
  /\ call["first"].outcome.kind = "result"
  /\ call["first"].outcome.value.source = "nominatim"
  /\ call["first"].outcome.value.display_name = <<"A","b","c">>
  /\ call["second"].outcome = call["first"].outcome

\* C19: under every interleaving of the provider requests of the calls,
\* a call that has ended has returned what it returns when it runs alone on
\* the same provider responses
C19_AsIfAlone ==
  \A c \in Calls :
    call[c].pc = "done" =>
      call[c].outcome = AloneOutcome(call[c].location, call[c].responses)

\* requests of two calls were outstanding together; one call returned the
\* result of Nominatim, one the result of Photon, one null
C19_Witness ==
  /\ overlapped
  /\ \A c \in Calls : call[c].pc = "done"
  /\ call["first"].outcome.kind = "result"
  /\ call["first"].outcome.value.source = "nominatim"
  /\ call["second"].outcome.kind = "result"
  /\ call["second"].outcome.value.source = "photon"
  /\ call["other"].outcome.kind = "null"

(***************************************************************************)
(* Properties of the posting limits, checked under SpecLimits.             *)
(***************************************************************************)
\* C20: under every interleaving of the POST /api/posts requests of a user
\* within one day, at most DAILY_LIMIT posts are created that day,
\* posts_today never exceeds DAILY_LIMIT, posts_this_week never exceeds
\* WEEKLY_LIMIT and posts_this_month never exceeds MONTHLY_LIMIT
C20_LimitsHold ==
  /\ posts <= DAILY_LIMIT
  /\ row.posts_today <= DAILY_LIMIT
  /\ row.posts_this_week <= WEEKLY_LIMIT
  /\ row.posts_this_month <= MONTHLY_LIMIT

(***************************************************************************)
(* Properties of the sessions, checked under SpecAuth.                     *)
(***************************************************************************)
\* C21: a request that arrives with a token after a logout for that token
\* has succeeded is answered 401 and its handler never runs; a row whose
\* token no logout was made for is still in user_sessions; and when next()
\* is called for a request a matching unexpired row exists and the user is
\* active
C21_SessionValidity ==
  /\ \A r \in Requests :
       (guarded[r].late /\ guarded[r].pc \in {"handler", "done"}) =>
         (guarded[r].status = 401 /\ ~guarded[r].accepted)
  /\ \A s \in issued : s.session_token \notin revoked => s \in user_sessions
  /\ \A r \in Requests :
       guarded[r].accepted => (guarded[r].rowAtNext /\ is_active)

(***************************************************************************)
(* Properties of the posts, checked under SpecPosts.                       *)
(***************************************************************************)
\* C22: a PUT or DELETE /api/posts/:id of a user who does not own post :id
\* is answered 404 and never reaches its UPDATE, and every post has been
\* written only by requests of its owner
C22_OnlyOwnerWrites ==
  /\ \A r \in Requests :
       (/\ edits[r].pc \in {"update", "done"}
        /\ postTable[edits[r].id].user_id # edits[r].user) =>
         (edits[r].pc = "done" /\ edits[r].status = 404)
  /\ \A p \in PostIds : writers[p] \subseteq {postTable[p].user_id}

\* the DELETE of user 2 for post 1 was answered 404 while the PUT of
\* user 1 changed the subject of post 1, which is still active
C22_Witness ==
  /\ edits["r1"].user = 2 /\ edits["r1"].id = 1 /\ edits["r1"].status = 404
  /\ edits["r1"].method = "DELETE"
  /\ edits["r2"].user = 1 /\ edits["r2"].id = 1 /\ edits["r2"].status = 200
  /\ postTable[1] = PostRow(1, "physics", TRUE)
  /\ writers[1] = {1}

(***************************************************************************)
(* Properties of the conversations and messages, checked under SpecChat.   *)
(***************************************************************************)
\* the user is participant1 or participant2 of the conversation with the id
IsParticipant(user, id) ==
  /\ id \in DOMAIN conversations
  /\ user \in {conversations[id].participant1_id,
               conversations[id].participant2_id}

C26_OneConversationPerPair ==
  /\ \A c \in DOMAIN conversations : \A d \in DOMAIN conversations :
       (c # d) =>
         {conversations[c].participant1_id, conversations[c].participant2_id}
           # {conversations[d].participant1_id, conversations[d].participant2_id}
  /\ \A c \in DOMAIN conversations :
       conversations[c].participant1_id < conversations[c].participant2_id
  /\ \A r \in Requests :
       (chat[r].route = "start" /\ chat[r].pc = "done") =>
         /\ (chat[r].existed # {}) =>
              (chat[r].status = 200 /\ chat[r].conversation_id \in chat[r].existed)
         /\ (chat[r].participant_id.value = chat[r].user) => chat[r].status = 400

(***************************************************************************)
(* Properties of the attempts over the days, checked under SpecDays.       *)
(***************************************************************************)
\* the request has read a row that was last reset before today: it has run
\* the reset
HasReset(r) ==
  /\ req[r].userLimits.present
  /\ req[r].userLimits.last_reset_date < today

\* C24: a request that has run the reset is not answered 500, and with a
\* complete body and the refreshed counters under the limits it is
\* answered 201
C24_ResetThenProceed ==
  \A r \in Requests :
    (req[r].pc = "done" /\ HasReset(r)) =>
      /\ req[r].status # 500
      /\ (req[r].complete /\ ~OverLimit(row)) => req[r].status = 201

\* C25: no attempt is refused for the weekly limit 7 days or more after
\* posts_this_week was last set to 0, and none for the monthly limit 30 days
\* or more after posts_this_month was last set to 0
C25_WindowsReopen ==
  \A r \in Requests :
    (/\ req[r].pc = "done"
     /\ req[r].status = 429
     /\ req[r].userLimits.posts_today < DAILY_LIMIT) =>
      /\ (req[r].userLimits.posts_this_week >= WEEKLY_LIMIT) =>
           today - req[r].userLimits.week_zeroed < 7
      /\ (/\ req[r].userLimits.posts_this_week < WEEKLY_LIMIT
          /\ req[r].userLimits.posts_this_month >= MONTHLY_LIMIT) =>
           today - req[r].userLimits.month_zeroed < 30

(***************************************************************************)
(* Properties of parseCoordinates, checked under SpecPure.                 *)
(***************************************************************************)
\* the string is an optional sign and digits, and nothing else
IsNumericString(s) ==
  /\ s # <<>>
  /\ LET d == IF s[1] \in {"-", "+"} THEN Tail(s) ELSE s
     IN  d # <<>> /\ \A k \in DOMAIN d : IsDigit(d[k])

\* the value is a number or a numeric string
IsNumeric(x) ==
  \/ x.t = "number"
  \/ x.t = "string" /\ IsNumericString(x.s)

\* the number a numeric value stands for
NumericValue(x) == IF x.t = "number" THEN x.v ELSE parseFloat(x.s).v

\* latitude and longitude are numeric and within the ranges
WithinRanges(data) ==
  /\ IsNumeric(data.latitude)
  /\ IsNumeric(data.longitude)
  /\ NumericValue(data.latitude) >= 0 - 90
  /\ NumericValue(data.latitude) <= 90
  /\ NumericValue(data.longitude) >= 0 - 180
  /\ NumericValue(data.longitude) <= 180

\* C30: parseCoordinates returns [lat, lng] for every input whose latitude
\* and longitude are numbers or numeric strings within the ranges, 0
\* included, and null for every other input; a pair it returns is within
\* the ranges
C30_ParseCoordinates ==
  (pIn.fn = "coordinates" /\ pOut.done) =>
    LET data == pIn.results[1]
    IN  /\ WithinRanges(data) =>
             pOut.list = <<NumericValue(data.latitude),
                           NumericValue(data.longitude)>>
        /\ ~WithinRanges(data) => pOut.list = <<>>
        /\ (pOut.list # <<>>) =>
             /\ pOut.list[1] >= 0 - 90 /\ pOut.list[1] <= 90
             /\ pOut.list[2] >= 0 - 180 /\ pOut.list[2] <= 180

(***************************************************************************)
(* Properties of the location field, checked under SpecForm.               *)
(***************************************************************************)
\* C27: when no validation is waiting or under way, a shown outcome valid
\* or invalid is the answer for the text in the field; the answer of an
\* earlier request has not replaced the answer of a later one; and a
\* locationData passed to the form came with the text it was validated for
C27_NoStaleValidation ==
  /\ (~pending.waiting /\ fetches = {}
        /\ validationState \in {"valid", "invalid"}) =>
       shown.address = formData.location
  /\ shown.seq = shown.latest
  /\ reported.data.present => reported.data.address = reported.text

\* C28: a submitted locationData, from which latitude, longitude,
\* location_confidence and location_source are taken, is the answer of a
\* successful validation of the submitted location text
C28_SubmittedFromValidation ==
  (submitted.sent /\ submitted.locationData.present) =>
    submitted.locationData.address = submitted.location

(***************************************************************************)
(* Properties of the map of the post page, checked under SpecDetail.       *)
(***************************************************************************)
\* the route has answered with an entry and geocodeLocation has read it
\* before its abort timer ran
EntryRead ==
  /\ geocoding.data = "read"
  /\ backend.reply.status = 200
  /\ Len(backend.reply.entries) > 0

\* C29: a call of geocodeLocation that has not finished can always go on;
\* when it has finished, mapLoading is false and coordinates are set, to
\* the coordinates of the entry when the route answered with an entry
\* before the abort timer of the component ran and to the San Francisco
\* default otherwise; and when the Nominatim attempt of the request ended
\* by its timer, the coordinates shown are never those of Photon
C29_MapSettles ==
  /\ geocoding.pc \in {"idle", "done"} \/ ENABLED NextDetail
  /\ geocoding.pc = "done" =>
       /\ mapLoading = FALSE
       /\ coordinates.set
       /\ coordinates = IF EntryRead THEN FromEntry(backend.reply.entries[1])
                        ELSE SanFrancisco
       /\ backend.timedOut => coordinates.source # "photon"

====
